---- MODULE Spec2Model ----
(***************************************************************************)
(* Verification model of the clippy crawler (yerffejytnac/clippy).         *)
(*                                                                         *)
(* A URL string is modelled by the parts the WHATWG parser splits it into: *)
(*   kind   "abs"  the string starts with "https://" and parses            *)
(*          "bare" the string has no scheme ("a.com/x")                    *)
(*          "bad"  the string does not parse (new URL throws)              *)
(*   host   the hostname as a sequence of labels (<<"www","a","com">>)     *)
(*   path   the path text as a sequence of characters                      *)
(*   query  the names of the query parameters, in order                    *)
(*   hash   whether the string carries a #fragment                         *)
(***************************************************************************)
EXTENDS Integers, Sequences, FiniteSets, TLC

\* ------------------------------------------------------------------ bounds
MaxPathLen == 4   \* longest path text of the inputs of normalizeUrl
MaxQueryLen == 1  \* most query parameters of the inputs of normalizeUrl

MaxLines == 4     \* most lines of a robots.txt text
MaxPages == 2     \* largest maxPages option of the crawls
MaxDepth == 1     \* largest depth option of the crawls
MaxLinks == 2     \* most links extracted from one page, most URLs of one sitemap
IdleTicks == 1    \* the idle timeout, in waits of the drain loop
MaxChildren == 3  \* most child sitemaps listed in one sitemap index
MidSitemap == 150 \* number of URLs of a middle-sized sitemap
BigSitemap == 250 \* number of URLs of a sitemap larger than the parser's cap
MaxWaiting == 3   \* most functions waiting in the queue of the rate-limit runs
MaxFetches == 3   \* most fetch calls made on one browser engine
MaxCallers == 4   \* most concurrent callers of ensureBrowserInstalled
MaxCalls == 2

\* ------------------------------------------------------------- sequences
RECURSIVE SeqsUpTo(_, _)
SeqsUpTo(S, n) ==
  IF n = 0 THEN {<<>>}
  ELSE LET shorter == SeqsUpTo(S, n - 1)
       IN shorter \cup {Append(s, x) : s \in {t \in shorter : Len(t) = n - 1}, x \in S}

RECURSIVE FilterSeq(_, _)
FilterSeq(s, keep) ==
  IF s = <<>> THEN <<>>
  ELSE IF Head(s) \in keep THEN <<Head(s)>> \o FilterSeq(Tail(s), keep)
       ELSE FilterSeq(Tail(s), keep)

Last(s) == s[Len(s)]
Front(s) == SubSeq(s, 1, Len(s) - 1)

\* ------------------------------------------------------------------- URLs
Url(kind, host, path, query, hash) ==
  [kind |-> kind, host |-> host, path |-> path, query |-> query, hash |-> hash]

Abs(host, path) == Url("abs", host, path, <<>>, FALSE)

HostA == <<"a", "com">>
HostW == <<"www", "a", "com">>
HostB == <<"b", "org">>
Hosts == {HostA, HostW, HostB}

\* url.startsWith("http"): a string with a scheme, or a scheme-less string
\* whose first host label happens to start with the letters "http".
HttpLabels == {"httpbin"}
startsWithHttp(u) ==
  \/ u.kind = "abs"
  \/ u.kind = "bare" /\ u.host # <<>> /\ Head(u.host) \in HttpLabels

\* new URL(s) throws unless s has a scheme and parses.
parses(u) == u.kind = "abs"

\* parsed.pathname: an empty path text reads back as "/".
pathname(u) == IF u.path = <<>> THEN <<"/">> ELSE u.path

TrackingParams ==
  {"utm_source", "utm_medium", "utm_campaign", "utm_content", "utm_term",
   "ref", "fbclid", "gclid"}

\* searchParams.delete(name) for every name of a set, then re-serialised.
RECURSIVE deleteParams(_, _)
deleteParams(query, names) ==
  IF query = <<>> THEN <<>>
  ELSE IF Head(query) \in names THEN deleteParams(Tail(query), names)
       ELSE <<Head(query)>> \o deleteParams(Tail(query), names)

\* url.startsWith("http") ? url : `https://${url}`
withScheme(url) ==
  IF startsWithHttp(url) THEN url
  ELSE [url EXCEPT !.kind = IF url.kind = "bare" THEN "abs" ELSE @]

normalizeUrl(url) ==
  LET given == withScheme(url)
  IN IF ~parses(given) THEN url
     ELSE LET p0 == pathname(given)
              path == IF Last(p0) = "/" /\ p0 # <<"/">> THEN Front(p0) ELSE p0
          IN Url("abs", given.host, path, deleteParams(given.query, TrackingParams), FALSE)

\* The text of a string that does not parse, as a value comparable to a host.
rawText(url) == <<"!", url.kind>> \o url.host \o url.path

getBaseDomain(url) ==
  LET given == withScheme(url)
  IN IF ~parses(given) THEN rawText(url)
     ELSE IF Len(given.host) > 1 /\ Head(given.host) = "www"
          THEN Tail(given.host) ELSE given.host

\* ----------------------------------------------------------- robots.txt
\* A robots.txt text is a sequence of lines; a line is its directive (the
\* text before the first colon, lower-cased and trimmed) and its value.
Line(d, v) == [d |-> d, v |-> v]

toLowerCase(s) == IF s = "Bot" THEN "bot" ELSE s

NoRule == [userAgent |-> "", allow |-> <<>>, disallow |-> <<>>, open |-> FALSE]

\* One iteration of the line loop of parseRobotsTxt; acc is
\* [rules, sitemaps, cur] with cur.open = (currentRule !== null).
parseLine(acc, line) ==
  LET cur == acc.cur
  IN CASE line.d = "user-agent" ->
            [acc EXCEPT !.rules = IF cur.open THEN Append(@, cur) ELSE @,
                        !.cur = [userAgent |-> toLowerCase(line.v), allow |-> <<>>,
                                 disallow |-> <<>>, open |-> TRUE]]
       [] line.d = "allow" ->
            IF cur.open /\ line.v # <<>>
            THEN [acc EXCEPT !.cur.allow = Append(@, line.v)] ELSE acc
       [] line.d = "disallow" ->
            IF cur.open /\ line.v # <<>>
            THEN [acc EXCEPT !.cur.disallow = Append(@, line.v)] ELSE acc
       [] line.d = "sitemap" ->
            IF line.v # <<>> THEN [acc EXCEPT !.sitemaps = Append(@, line.v)] ELSE acc
       [] OTHER -> acc

RECURSIVE parseLines(_, _)
parseLines(acc, lines) ==
  IF lines = <<>> THEN acc ELSE parseLines(parseLine(acc, Head(lines)), Tail(lines))

RuleOf(cur) == [userAgent |-> cur.userAgent, allow |-> cur.allow, disallow |-> cur.disallow]

\* parseRobotsTxt(host, text): the rule list and the sitemap list it stores.
parseRobotsTxt(text) ==
  LET acc == parseLines([rules |-> <<>>, sitemaps |-> <<>>, cur |-> NoRule], text)
  IN [rules |-> [i \in 1..Len(acc.rules) |-> RuleOf(acc.rules[i])]
                  \o (IF acc.cur.open THEN <<RuleOf(acc.cur)>> ELSE <<>>),
      sitemaps |-> acc.sitemaps]

\* new RegExp("^" + regex).test(path): "*" is any sequence, every other
\* character is literal (the special ones are escaped), anchored at the end
\* when the pattern ended with "$".
RECURSIVE regexTest(_, _, _)
regexTest(path, pat, hasEndAnchor) ==
  IF pat = <<>> THEN (~hasEndAnchor \/ path = <<>>)
  ELSE IF Head(pat) = "*"
       THEN \E k \in 0..Len(path) :
              regexTest(SubSeq(path, k + 1, Len(path)), Tail(pat), hasEndAnchor)
       ELSE /\ path # <<>>
            /\ Head(path) = Head(pat)
            /\ regexTest(Tail(path), Tail(pat), hasEndAnchor)

pathMatches(path, pattern) ==
  IF pattern = <<"/">> THEN TRUE
  ELSE LET hasEndAnchor == Last(pattern) = "$"
           patternToConvert == IF hasEndAnchor THEN Front(pattern) ELSE pattern
       IN regexTest(path, patternToConvert, hasEndAnchor)

Match(pattern, isAllow) == [pattern |-> pattern, isAllow |-> isAllow]

RECURSIVE matchesOf(_, _, _)
\* the matching patterns of one list, in list order
matchesOf(path, patterns, isAllow) ==
  IF patterns = <<>> THEN <<>>
  ELSE (IF pathMatches(path, Head(patterns)) THEN <<Match(Head(patterns), isAllow)>> ELSE <<>>)
       \o matchesOf(path, Tail(patterns), isAllow)

RECURSIVE collectMatches(_, _)
\* for (const rule of matchingRules) { allow patterns; disallow patterns }
collectMatches(path, matchingRules) ==
  IF matchingRules = <<>> THEN <<>>
  ELSE matchesOf(path, Head(matchingRules).allow, TRUE)
       \o matchesOf(path, Head(matchingRules).disallow, FALSE)
       \o collectMatches(path, Tail(matchingRules))

\* The reducer with the tie rule dropped: an equally long pattern never replaces.
longerOfNoTie(best, current) ==
  IF Len(current.pattern) > Len(best.pattern) THEN current ELSE best

\* The reducer of matches.reduce(...) in isAllowed.
longerOf(best, current) ==
  IF Len(current.pattern) > Len(best.pattern) THEN current
  ELSE IF Len(current.pattern) = Len(best.pattern) /\ current.isAllow THEN current
       ELSE best

RECURSIVE reduceMatches(_, _)
reduceMatches(best, rest) ==
  IF rest = <<>> THEN best ELSE reduceMatches(longerOf(best, Head(rest)), Tail(rest))

RECURSIVE filterRules(_, _)
filterRules(hostRules, ua) ==
  IF hostRules = <<>> THEN <<>>
  ELSE (IF Head(hostRules).userAgent = ua \/ Head(hostRules).userAgent = "*"
        THEN <<Head(hostRules)>> ELSE <<>>) \o filterRules(Tail(hostRules), ua)

\* parsedUrl.pathname + parsedUrl.search, as characters ("?" and the parameters).
pathAndSearch(url) == pathname(url) \o (IF url.query = <<>> THEN <<>> ELSE <<"?">> \o url.query)

\* isAllowed(url, userAgent) against the rule map of the parser.
isAllowed(ruleMap, url, userAgent) ==
  IF ~parses(url) THEN TRUE
  ELSE IF ~(url.host \in DOMAIN ruleMap /\ ruleMap[url.host].has) THEN TRUE
  ELSE LET hostRules == ruleMap[url.host].list
           matchingRules == filterRules(hostRules, toLowerCase(userAgent))
           matches == collectMatches(pathAndSearch(url), matchingRules)
       IN IF hostRules = <<>> THEN TRUE
          ELSE IF matchingRules = <<>> THEN TRUE
          ELSE IF matches = <<>> THEN TRUE
          ELSE reduceMatches(Head(matches), Tail(matches)).isAllow

\* ----------------------------------------------------------------- engines
\* A response body is modelled by what isBlocked reads of it: its length, how
\* many patterns of each family it matches, and the substrings it includes.
Html(len, cf, dd, px, ak, captcha, bot, tell, jsOnly) ==
  [len |-> len, cf |-> cf, dd |-> dd, px |-> px, ak |-> ak, captcha |-> captcha,
   bot |-> bot, tell |-> tell, jsOnly |-> jsOnly]

Verdict(blocked, reason) == [blocked |-> blocked, reason |-> reason]

isBlocked(html, statusCode) ==
  IF statusCode = 403 THEN Verdict(TRUE, "forbidden")
  ELSE IF statusCode = 429 THEN Verdict(TRUE, "rate_limit")
  ELSE IF statusCode = 503 /\ html.cf >= 1 THEN Verdict(TRUE, "cloudflare")
  ELSE IF html.len > 0 /\ html.len < 500 /\ html.tell THEN Verdict(TRUE, "empty_body")
  ELSE IF html.cf >= 2 THEN Verdict(TRUE, "cloudflare")
  ELSE IF html.dd >= 2 /\ html.len < 50000 THEN Verdict(TRUE, "datadome")
  ELSE IF html.px >= 1 /\ html.len < 50000 THEN Verdict(TRUE, "access_denied")
  ELSE IF html.ak >= 2 /\ html.len < 50000 THEN Verdict(TRUE, "access_denied")
  ELSE IF html.captcha >= 2 /\ html.len < 10000 THEN Verdict(TRUE, "captcha")
  ELSE IF html.bot /\ html.len < 3000 THEN Verdict(TRUE, "access_denied")
  ELSE IF html.jsOnly /\ html.len < 5000 THEN Verdict(TRUE, "javascript_required")
  ELSE Verdict(FALSE, "")

KnownProtected == {<<"x", "com">>, <<"linkedin", "com">>}

RECURSIVE dropFirstWww(_)
\* hostname.replace("www.", ""): the first "www." of the name, wherever it is
dropFirstWww(host) ==
  IF Len(host) <= 1 THEN host
  ELSE IF Head(host) = "www" THEN Tail(host)
       ELSE <<Head(host)>> \o dropFirstWww(Tail(host))

endsWithDomain(host, domain) ==
  /\ Len(host) > Len(domain)
  /\ SubSeq(host, Len(host) - Len(domain) + 1, Len(host)) = domain

needsBrowser(url) ==
  IF ~parses(url) THEN FALSE
  ELSE LET hostname == dropFirstWww(url.host)
       IN \/ hostname \in KnownProtected
          \/ \E domain \in KnownProtected : endsWithDomain(hostname, domain)

ENGINES == <<"fetch", "playwright", "rebrowser">>
BrowserEngines == {"playwright", "rebrowser"}

NoResult == [engine |-> "", blocked |-> FALSE, statusCode |-> 0]

\* One call of EngineWaterfall.fetch: the strategies still to try, the forced
\* strategy ("" when none), every attempt made so far, and how the call ended.
NoCall ==
  [pc |-> "idle", url |-> Abs(HostA, <<>>), force |-> "", todo |-> <<>>,
   attempts |-> <<>>, result |-> NoResult]

\* fetch(url, options) up to the first await, with every strategy tried even
\* when one is forced.
fetchBeginIgnoringForce(url, forceEngine) ==
  [NoCall EXCEPT !.pc = "trying", !.url = url, !.force = forceEngine,
                 !.todo = SubSeq(ENGINES, IF needsBrowser(url) THEN 2 ELSE 1, Len(ENGINES))]

\* fetch(url, options) up to the first await, without the needsBrowser test.
fetchBeginNoPrecheck(url, forceEngine) ==
  [NoCall EXCEPT !.pc = "trying", !.url = url, !.force = forceEngine,
                 !.todo = IF forceEngine # "" THEN <<forceEngine>> ELSE ENGINES]

\* fetch(url, options) up to the first await.
fetchBegin(url, forceEngine) ==
  [NoCall EXCEPT !.pc = "trying", !.url = url, !.force = forceEngine,
                 !.todo = IF forceEngine # "" THEN <<forceEngine>>
                          ELSE SubSeq(ENGINES, IF needsBrowser(url) THEN 2 ELSE 1, Len(ENGINES))]

Attempt(engine, called, threw, blocked, statusCode) ==
  [engine |-> engine, called |-> called, threw |-> threw, blocked |-> blocked,
   statusCode |-> statusCode]

\* fetchWithEngine(url, engineName, options): what it returns or that it threw.
\* browser = ensureBrowserInstalled() answered true; response = what the
\* strategy's own fetch did.
fetchWithEngine(engine, browser, response) ==
  IF engine \in BrowserEngines /\ ~browser THEN Attempt(engine, FALSE, TRUE, FALSE, 0)
  ELSE IF response.threw THEN Attempt(engine, TRUE, TRUE, FALSE, 0)
  ELSE Attempt(engine, TRUE, FALSE, isBlocked(response.html, response.statusCode).blocked,
               response.statusCode)

\* this.stats[name]++ counting every call under "fetch"
bumpFetchOnly(counters, name) == [counters EXCEPT !["fetch"] = @ + 1]
\* this.stats[name]++
bump(counters, name) == [counters EXCEPT ![name] = @ + 1]

\* The step of the waterfall with the blocked test left out: the first
\* response that arrives is returned.
afterAttemptNoBlockTest(call, counters, a) ==
  LET c == [call EXCEPT !.attempts = Append(@, a)]
      res == [engine |-> a.engine, blocked |-> a.blocked, statusCode |-> a.statusCode]
  IN IF ~a.threw
     THEN [call |-> [c EXCEPT !.pc = "returned", !.result = res, !.todo = <<>>],
           stats |-> IF call.force # "" THEN counters ELSE bump(counters, a.engine)]
     ELSE IF Len(call.todo) = 1
          THEN [call |-> [c EXCEPT !.pc = "threw", !.todo = <<>>],
                stats |-> IF call.force # "" THEN counters ELSE bump(counters, "blocked")]
          ELSE [call |-> [c EXCEPT !.todo = Tail(@)], stats |-> counters]

\* The rest of fetch after one fetchWithEngine settled with attempt a: the
\* new state of the call and of the counters.
afterAttempt(call, counters, a) ==
  LET c == [call EXCEPT !.attempts = Append(@, a)]
      res == [engine |-> a.engine, blocked |-> a.blocked, statusCode |-> a.statusCode]
  IN IF call.force # ""
     THEN IF a.threw THEN [call |-> [c EXCEPT !.pc = "threw", !.todo = <<>>], stats |-> counters]
          ELSE [call |-> [c EXCEPT !.pc = "returned", !.result = res, !.todo = <<>>],
                stats |-> counters]
     ELSE IF ~a.threw /\ ~a.blocked
          THEN [call |-> [c EXCEPT !.pc = "returned", !.result = res, !.todo = <<>>],
                stats |-> bump(counters, a.engine)]
          ELSE IF Len(call.todo) = 1
               THEN [call |-> [c EXCEPT !.pc = "threw", !.todo = <<>>],
                     stats |-> bump(counters, "blocked")]
               ELSE [call |-> [c EXCEPT !.todo = Tail(@)], stats |-> counters]

NoStats == [fetch |-> 0, playwright |-> 0, rebrowser |-> 0, blocked |-> 0]

Response(threw, statusCode, html) == [threw |-> threw, statusCode |-> statusCode, html |-> html]
\* ensureBrowserInstalled(): the answer and the promise it leaves cached;
\* installs = whether "npx playwright install" would succeed.
ensureBrowserInstalled(installed, promise, installs) ==
  IF installed THEN [ok |-> TRUE, promise |-> promise]
  ELSE IF promise = "null"
       THEN [ok |-> installs, promise |-> IF installs THEN "true" ELSE "false"]
       ELSE [ok |-> promise = "true", promise |-> promise]

RECURSIVE runFetch(_, _, _, _, _, _)
\* fetch(url, options) from its first attempt to its end, when the strategy
\* named e answers responses[e] and a browser install would end as installs
\* says: the settled call, the counters and the install promise it leaves.
runFetch(c, counters, installed, promise, responses, installs) ==
  IF c.pc # "trying" THEN [call |-> c, stats |-> counters, promise |-> promise]
  ELSE LET engine == Head(c.todo)
           ensured == ensureBrowserInstalled(installed, promise, installs)
           a == fetchWithEngine(engine, ensured.ok, responses[engine])
           next == afterAttempt(c, counters, a)
       IN runFetch(next.call, next.stats, installed,
                   IF engine \in BrowserEngines THEN ensured.promise ELSE promise,
                   responses, installs)

\* ------------------------------------------------------- locale and dedup
Letters == {"a", "b", "c", "d", "e", "f", "n", "p", "s", "u", "x"}
En == <<"e", "n">>
De == <<"d", "e">>
Us == <<"u", "s">>
\* the codes of LANGUAGE_CODES / COUNTRY_CODES / the false-positive list that
\* the modelled alphabet can spell
LANGUAGE_CODES == {En, De}
COUNTRY_CODES == {De, Us}
FalsePositives == {Us}

letterAt(path, i) == i <= Len(path) /\ path[i] \in Letters
charAt(path, i, set) == i <= Len(path) /\ path[i] \in set

\* /\/([a-z]{2})([-_]([a-z]{2}))?/ matched at position k; atEnd = whether the
\* end of the path satisfies the lookahead ((?=\/|$) or (?=\/)).
longForm(path, k, atEnd) ==
  /\ charAt(path, k, {"/"}) /\ letterAt(path, k + 1) /\ letterAt(path, k + 2)
  /\ charAt(path, k + 3, {"-", "_"}) /\ letterAt(path, k + 4) /\ letterAt(path, k + 5)
  /\ (charAt(path, k + 6, {"/"}) \/ (atEnd /\ Len(path) = k + 5))

shortForm(path, k, atEnd) ==
  /\ charAt(path, k, {"/"}) /\ letterAt(path, k + 1) /\ letterAt(path, k + 2)
  /\ (charAt(path, k + 3, {"/"}) \/ (atEnd /\ Len(path) = k + 2))

localeAt(path, k, atEnd) ==
  IF longForm(path, k, atEnd)
  THEN [ok |-> TRUE, first |-> SubSeq(path, k + 1, k + 2), second |-> SubSeq(path, k + 4, k + 5)]
  ELSE IF shortForm(path, k, atEnd)
       THEN [ok |-> TRUE, first |-> SubSeq(path, k + 1, k + 2), second |-> <<>>]
       ELSE [ok |-> FALSE, first |-> <<>>, second |-> <<>>]

\* path.replace(/\/[a-z]{2}([-_][a-z]{2})?/, "") at position k; the lookahead
\* (?=\/) of the mid-path form limits what the optional group may take.
removeLocaleAt(path, k, needSlash) ==
  LET long == /\ charAt(path, k + 3, {"-", "_"}) /\ letterAt(path, k + 4) /\ letterAt(path, k + 5)
              /\ (needSlash => charAt(path, k + 6, {"/"}))
      n == IF long THEN 6 ELSE 3
  IN SubSeq(path, 1, k - 1) \o SubSeq(path, k + n, Len(path))

LocaleInfo(hasLocale, locale, language, country, canonicalPath) ==
  [hasLocale |-> hasLocale, locale |-> locale, language |-> language,
   country |-> country, canonicalPath |-> canonicalPath]

\* searchParams.get("lang") || get("locale") || ...: the query tokens that
\* carry a language, and the language each carries.
LocaleParams == {"lang=de"}
langParam(query) ==
  IF \E i \in DOMAIN query : query[i] \in LocaleParams THEN De ELSE <<>>

\* The value of a one-element set.
The(S) == CHOOSE x \in S : TRUE

Found(locale, language, country, path) ==
  [locale |-> locale, language |-> language, country |-> country, path |-> path]

\* pathMatch = m named a language or a country: the locale at the start of
\* the path, and the path without it.
localeAtStart(url, m) ==
  LET isLanguage == m.first \in LANGUAGE_CODES
      second == m.second # <<>> /\ (m.second \in COUNTRY_CODES \/ m.second \in LANGUAGE_CODES)
      stripped == removeLocaleAt(pathname(url), 1, FALSE)
  IN Found(IF second THEN m.first \o <<"-">> \o m.second ELSE m.first,
           IF isLanguage THEN m.first ELSE <<>>,
           IF second THEN m.second ELSE IF isLanguage THEN <<>> ELSE m.first,
           IF stripped = <<>> THEN <<"/">> ELSE stripped)

\* The lang / locale / hl / language parameter, when it names a language.
localeInQuery(url, lp) ==
  IF lp # <<>> /\ lp \in LANGUAGE_CODES THEN Found(lp, lp, <<>>, pathname(url))
  ELSE Found(<<>>, <<>>, <<>>, pathname(url))

\* The mid-path match without the list of false positives.
localeInMiddleNoExclusions(url, k0, mm) ==
  IF (mm.first \in LANGUAGE_CODES \/ mm.first \in COUNTRY_CODES)
  THEN LET second == mm.second # <<>> /\ mm.second \in COUNTRY_CODES
       IN Found(IF second THEN mm.first \o <<"-">> \o mm.second ELSE mm.first,
                IF mm.first \in LANGUAGE_CODES THEN mm.first ELSE <<>>,
                IF second THEN mm.second
                ELSE IF mm.first \in LANGUAGE_CODES THEN <<>> ELSE mm.first,
                removeLocaleAt(pathname(url), k0, TRUE))
  ELSE localeInQuery(url, langParam(url.query))

\* midPathMatch = mm at position k0, the leftmost match of the path.
localeInMiddle(url, k0, mm) ==
  IF (mm.first \in LANGUAGE_CODES \/ mm.first \in COUNTRY_CODES) /\ mm.first \notin FalsePositives
  THEN LET second == mm.second # <<>> /\ mm.second \in COUNTRY_CODES
       IN Found(IF second THEN mm.first \o <<"-">> \o mm.second ELSE mm.first,
                IF mm.first \in LANGUAGE_CODES THEN mm.first ELSE <<>>,
                IF second THEN mm.second
                ELSE IF mm.first \in LANGUAGE_CODES THEN <<>> ELSE mm.first,
                removeLocaleAt(pathname(url), k0, TRUE))
  ELSE localeInQuery(url, langParam(url.query))

\* if (!locale): the mid-path pattern, then the query parameters.
localeAfterStart(url, ks) ==
  IF ks = {} THEN localeInQuery(url, langParam(url.query))
  ELSE The({The({localeInMiddle(url, k0, mm) : mm \in {localeAt(pathname(url), k0, FALSE)}}) :
              k0 \in {k \in ks : \A j \in ks : k <= j}})

findLocale(url, m) ==
  IF m.ok /\ (m.first \in LANGUAGE_CODES \/ m.first \in COUNTRY_CODES)
  THEN localeAtStart(url, m)
  ELSE The({localeAfterStart(url, ks) :
              ks \in {{k \in 1..Len(pathname(url)) : localeAt(pathname(url), k, FALSE).ok}}})

localeInfoOf(url, found, rest) ==
  LocaleInfo(found.locale # <<>>, found.locale, found.language, found.country,
             found.path \o (IF rest = <<>> THEN <<>> ELSE <<"?">> \o rest))

extractLocale(url) ==
  IF ~parses(url) THEN LocaleInfo(FALSE, <<>>, <<>>, <<>>, rawText(url))
  ELSE The({localeInfoOf(url, found, deleteParams(url.query, LocaleParams)) :
              found \in {The({findLocale(url, m) : m \in {localeAt(pathname(url), 1, TRUE)}})}})

PreferredLanguage == En

Entry(key, url, locale) == [key |-> key, url |-> url, locale |-> locale]
putEntry(map, e) == {x \in map : x.key # e.key} \cup {e}

\* shouldSkip with the preference for the preferred language left out: a
\* localized URL of a recorded canonical path is always skipped.
shouldSkipNoPreference(map, url) ==
  LET localeInfo == extractLocale(url)
      key == <<url.host, localeInfo.canonicalPath>>
  IN IF (\E x \in map : x.key = key) /\ localeInfo.hasLocale
     THEN [skip |-> TRUE, reason |-> <<"locale:">> \o localeInfo.locale, map |-> map]
     ELSE [skip |-> FALSE, reason |-> <<>>,
           map |-> putEntry(map, Entry(key, url, localeInfo.locale))]

\* shouldSkip with the test of an unlocalized existing URL left out.
shouldSkipLocalizedOnly(map, url) ==
  LET localeInfo == extractLocale(url)
      key == <<url.host, localeInfo.canonicalPath>>
      found == {x \in map : x.key = key}
      existing == CHOOSE x \in found : TRUE
      existingLocale == extractLocale(existing.url)
      tracked == [skip |-> FALSE, reason |-> <<>>,
                  map |-> putEntry(map, Entry(key, url, localeInfo.locale))]
      skipped == [skip |-> TRUE, reason |-> <<"locale:">> \o localeInfo.locale, map |-> map]
  IN IF found # {} /\ localeInfo.hasLocale
     THEN IF existingLocale.language = PreferredLanguage
          THEN skipped
          ELSE IF localeInfo.language = PreferredLanguage THEN tracked
               ELSE skipped
     ELSE tracked

\* shouldSkip tracking the URL before it decides, also when it skips.
shouldSkipTrackingFirst(map, url) ==
  LET localeInfo == extractLocale(url)
      key == <<url.host, localeInfo.canonicalPath>>
      found == {x \in map : x.key = key}
      existing == CHOOSE x \in found : TRUE
      existingLocale == extractLocale(existing.url)
      tracked == [skip |-> FALSE, reason |-> <<>>,
                  map |-> putEntry(map, Entry(key, url, localeInfo.locale))]
      skipped == [skip |-> TRUE, reason |-> <<"locale:">> \o localeInfo.locale,
                  map |-> putEntry(map, Entry(key, url, localeInfo.locale))]
  IN IF found # {} /\ localeInfo.hasLocale
     THEN IF existingLocale.language = PreferredLanguage \/ ~existingLocale.hasLocale
          THEN skipped
          ELSE IF localeInfo.language = PreferredLanguage THEN tracked
               ELSE skipped
     ELSE tracked

\* DedupTracker.shouldSkip(url) on the canonical-path map: whether to skip,
\* the reason, and the map it leaves.  Only called with a URL that parses.
shouldSkip(map, url) ==
  LET localeInfo == extractLocale(url)
      key == <<url.host, localeInfo.canonicalPath>>
      found == {x \in map : x.key = key}
      existing == CHOOSE x \in found : TRUE
      existingLocale == extractLocale(existing.url)
      tracked == [skip |-> FALSE, reason |-> <<>>,
                  map |-> putEntry(map, Entry(key, url, localeInfo.locale))]
      skipped == [skip |-> TRUE, reason |-> <<"locale:">> \o localeInfo.locale, map |-> map]
  IN IF found # {} /\ localeInfo.hasLocale
     THEN IF existingLocale.language = PreferredLanguage \/ ~existingLocale.hasLocale
          THEN skipped
          ELSE IF localeInfo.language = PreferredLanguage THEN tracked
               ELSE skipped
     ELSE tracked

\* ------------------------------------------------------------ URL filters
SKIP_EXTENSIONS == {".pdf", ".xml"}
shouldSkipUrl(url) ==
  IF ~parses(url) THEN TRUE
  ELSE Last(pathname(url)) \in SKIP_EXTENSIONS

\* ------------------------------------------------------------------ crawler
DEFAULT_SITEMAP_CAP == 50

Min(a, b) == IF a < b THEN a ELSE b

Options(depth, concurrency, maxPages, respectRobots, useSitemap, forceEngine) ==
  [depth |-> depth, concurrency |-> concurrency, maxPages |-> maxPages,
   respectRobots |-> respectRobots, useSitemap |-> useSitemap,
   includePattern |-> "", excludePattern |-> "", forceEngine |-> forceEngine]

\* RegExp.test(url) for the patterns of the model: "" is no pattern, "/p"
\* matches a URL whose path contains "/p".
patternTest(pattern, url) ==
  LET path == pathname(url)
  IN \E k \in 1..Len(path) : path[k] = "/" /\ charAt(path, k + 1, {"p"})

\* A fetch task of the queue: the URL and depth processUrl was given, how the
\* URL entered the frontier, where processUrl stands, how often the queue
\* invoked it, and its engine call.
Task(url, depth, via) ==
  [url |-> url, depth |-> depth, via |-> via, st |-> "queued", runs |-> 0, call |-> NoCall]

\* The shared crawler state that admission reads and writes.
Frontier(vis, tsk, map) == [visited |-> vis, tasks |-> tsk, canonicalPaths |-> map]

\* addToQueue without the visited test.
addToQueueNoVisitedTest(f, opts, url, depth, via) ==
  LET normalized == normalizeUrl(url)
  IN IF Cardinality(f.visited) >= opts.maxPages THEN f
     ELSE [f EXCEPT !.visited = @ \cup {normalized},
                    !.tasks = Append(@, Task(url, depth, via))]

\* addToQueue without the page budget test.
addToQueueNoBudgetTest(f, opts, url, depth, via) ==
  LET normalized == normalizeUrl(url)
  IN IF normalized \in f.visited THEN f
     ELSE [f EXCEPT !.visited = @ \cup {normalized},
                    !.tasks = Append(@, Task(url, depth, via))]

\* addToQueue without the visited.add: the function is queued unmarked.
addToQueueNoMark(f, opts, url, depth, via) ==
  LET normalized == normalizeUrl(url)
  IN IF normalized \in f.visited THEN f
     ELSE IF Cardinality(f.visited) >= opts.maxPages THEN f
     ELSE [f EXCEPT !.tasks = Append(@, Task(url, depth, via))]

addToQueue(f, opts, url, depth, via) ==
  LET normalized == normalizeUrl(url)
  IN IF normalized \in f.visited THEN f
     ELSE IF Cardinality(f.visited) >= opts.maxPages THEN f
     ELSE [f EXCEPT !.visited = @ \cup {normalized},
                    !.tasks = Append(@, Task(url, depth, via))]

Admission(ok, map) == [ok |-> ok, canonicalPaths |-> map]

\* shouldCrawl without the depth test.
shouldCrawlNoDepthTest(f, opts, ruleMap, hosts, url, depth) ==
  LET normalized == normalizeUrl(url)
      no == Admission(FALSE, f.canonicalPaths)
  IN IF normalized \in f.visited THEN no
     ELSE IF Cardinality(f.visited) >= opts.maxPages THEN no
     ELSE IF shouldSkipUrl(url) THEN no
     ELSE IF getBaseDomain(url) \notin hosts THEN no
     ELSE IF opts.respectRobots /\ ~isAllowed(ruleMap, url, "*") THEN no
     ELSE IF opts.includePattern # "" /\ ~patternTest(opts.includePattern, url) THEN no
     ELSE IF opts.excludePattern # "" /\ patternTest(opts.excludePattern, url) THEN no
     ELSE LET dedupResult == shouldSkip(f.canonicalPaths, url)
          IN Admission(~dedupResult.skip, dedupResult.map)

\* shouldCrawl(url, depth): the answer and the canonical-path map the dedup
\* tracker is left with.
shouldCrawlNoDomainTest(f, opts, ruleMap, hosts, url, depth) ==
  LET normalized == normalizeUrl(url)
      no == Admission(FALSE, f.canonicalPaths)
  IN IF normalized \in f.visited THEN no
     ELSE IF Cardinality(f.visited) >= opts.maxPages THEN no
     ELSE IF depth > opts.depth THEN no
     ELSE IF shouldSkipUrl(url) THEN no
     ELSE IF opts.respectRobots /\ ~isAllowed(ruleMap, url, "*") THEN no
     ELSE IF opts.includePattern # "" /\ ~patternTest(opts.includePattern, url) THEN no
     ELSE IF opts.excludePattern # "" /\ patternTest(opts.excludePattern, url) THEN no
     ELSE LET dedupResult == shouldSkip(f.canonicalPaths, url)
          IN Admission(~dedupResult.skip, dedupResult.map)

shouldCrawl(f, opts, ruleMap, hosts, url, depth) ==
  LET normalized == normalizeUrl(url)
      no == Admission(FALSE, f.canonicalPaths)
  IN IF normalized \in f.visited THEN no
     ELSE IF Cardinality(f.visited) >= opts.maxPages THEN no
     ELSE IF depth > opts.depth THEN no
     ELSE IF shouldSkipUrl(url) THEN no
     ELSE IF getBaseDomain(url) \notin hosts THEN no
     ELSE IF opts.respectRobots /\ ~isAllowed(ruleMap, url, "*") THEN no
     ELSE IF opts.includePattern # "" /\ ~patternTest(opts.includePattern, url) THEN no
     ELSE IF opts.excludePattern # "" /\ patternTest(opts.excludePattern, url) THEN no
     ELSE LET dedupResult == shouldSkip(f.canonicalPaths, url)
          IN Admission(~dedupResult.skip, dedupResult.map)

RECURSIVE admitAll(_, _, _, _, _, _, _)
\* for (const link of links) if (this.shouldCrawl(link, d)) this.addToQueue(link, d)
admitAll(f, opts, ruleMap, hosts, links, depth, via) ==
  IF links = <<>> THEN f
  ELSE LET r == shouldCrawl(f, opts, ruleMap, hosts, Head(links), depth)
           g == [f EXCEPT !.canonicalPaths = r.canonicalPaths]
           h == IF r.ok THEN addToQueue(g, opts, Head(links), depth, via) ELSE g
       IN admitAll(h, opts, ruleMap, hosts, Tail(links), depth, via)

RECURSIVE addSeeds(_, _, _)
\* for (const url of normalizedUrls) this.addToQueue(url, 0)
addSeeds(f, opts, urls) ==
  IF urls = <<>> THEN f
  ELSE addSeeds(addToQueue(f, opts, Head(urls), 0, "seed"), opts, Tail(urls))

\* The generator of crawl(): where it is suspended, yieldedCount, and the
\* time since lastYieldTime in ticks of the 50 ms wait.
Gen(pc, yieldedCount, idle) == [pc |-> pc, yieldedCount |-> yieldedCount, idle |-> idle]

Run(g, res, out) == [gen |-> g, results |-> res, yielded |-> out]

\* The final loop: yield what is buffered, then end.
flush(g, res, out) ==
  IF res # <<>>
  THEN Run([g EXCEPT !.pc = "flushyield"], Tail(res), Append(out, Head(res)))
  ELSE Run([g EXCEPT !.pc = "done"], res, out)

\* The drain loop from its inner while, with the idle test left out.
drainNoIdleTest(g, res, out, opts, limit) ==
  IF res # <<>>
  THEN Run([g EXCEPT !.pc = "yield"], Tail(res), Append(out, Head(res)))
  ELSE IF g.yieldedCount >= opts.maxPages THEN flush(g, res, out)
  ELSE Run([g EXCEPT !.pc = "sleep"], res, out)

\* The drain loop taking the newest buffered result (pop) instead of the
\* oldest (shift).
drainNewestFirst(g, res, out, opts, limit) ==
  IF res # <<>>
  THEN Run([g EXCEPT !.pc = "yield"], Front(res), Append(out, Last(res)))
  ELSE IF g.yieldedCount >= opts.maxPages THEN flush(g, res, out)
  ELSE IF g.idle > limit THEN flush(g, res, out)
  ELSE Run([g EXCEPT !.pc = "sleep"], res, out)

\* The drain loop from its inner while to the next yield or wait.
drain(g, res, out, opts, limit) ==
  IF res # <<>>
  THEN Run([g EXCEPT !.pc = "yield"], Tail(res), Append(out, Head(res)))
  ELSE IF g.yieldedCount >= opts.maxPages THEN flush(g, res, out)
  ELSE IF g.idle > limit THEN flush(g, res, out)
  ELSE Run([g EXCEPT !.pc = "sleep"], res, out)

\* The outer while with the queue left out of its test.
loopTopIgnoringQueue(g, res, out, opts, limit, busy) ==
  IF res # <<>> THEN drain(g, res, out, opts, limit) ELSE flush(g, res, out)

\* The drain loop from the test of the outer while.
loopTop(g, res, out, opts, limit, busy) ==
  IF busy \/ res # <<>> THEN drain(g, res, out, opts, limit) ELSE flush(g, res, out)

\* ------------------------------------------------------------------ state
VARIABLES
  norm,       \* harness of normalizeUrl: the input, one and two applications
  robotsTxt,  \* the web: what each host serves at /robots.txt
  rules,      \* RobotsParser.rules: host -> rule list (has = the map has the key)
  sitemaps,   \* RobotsParser.sitemaps: host -> sitemap URLs named in robots.txt
  inflight,   \* robots.txt requests awaiting their response, per host
  asked,      \* harness of isAllowed: the last call and its verdict
  call,       \* harness of EngineWaterfall.fetch: one call and its progress
  stats,      \* EngineWaterfall.stats
  playwrightInstalled,   \* the machine: whether playwright can be imported
  browserInstallPromise, \* EngineWaterfall.browserInstallPromise: "null", "true", "false"
  options,    \* Crawler.options
  startUrls,  \* the argument of crawl()
  baseHosts,  \* Crawler.baseHosts
  visited,    \* Crawler.visited
  tasks,      \* every function given to Crawler.queue, in the order added
  results,    \* Crawler.results
  yielded,    \* what crawl() has yielded to its consumer, in order
  canonicalPaths,  \* DedupTracker.canonicalPaths
  gen,        \* the generator of crawl()
  smap,       \* parseSitemaps: the seed it is at, whether it awaits a sitemap, whether the last one failed
  checked,    \* harness of shouldCrawl: one URL asked twice and the two answers
  dedup,     \* harness of DedupTracker.shouldSkip: the last call, the map before it, the first URL seen per key
  sm,        \* the run of SitemapParser.parse / parseUrl under test
  rate,      \* the queue's interval under test: starts and requests in the current interval
  closed,    \* whether the consumer has left the crawl and Crawler.close() has run
  auth,      \* the browser engines under test: stored sessions, the context of each engine, the last fetch
  eng,       \* one browser-backed engine under test: its fields, its fetch calls, the browsers and contexts that exist
  inst,      \* callers of ensureBrowserInstalled and the number of installBrowser runs
  parseCall, \* the last RobotsParser.parse call under test: how its request ended and how it settled
  det,       \* harness of isBlocked: one response and the verdict on it
  fetches    \* the calls of EngineWaterfall.fetch made so far, settled ones included

normVars == <<norm>>
robotsVars == <<robotsTxt, rules, sitemaps, inflight, asked>>
engineVars == <<call, stats, playwrightInstalled, browserInstallPromise>>
crawlVars == <<options, startUrls, baseHosts, visited, tasks, results, yielded,
               canonicalPaths, gen, smap, checked, dedup, sm, rate, closed, auth, eng, inst, parseCall, det, fetches>>
vars == <<norm, robotsTxt, rules, sitemaps, inflight, asked,
          call, stats, playwrightInstalled, browserInstallPromise,
          options, startUrls, baseHosts, visited, tasks, results, yielded,
          canonicalPaths, gen, smap, checked, dedup, sm, rate, closed, auth, eng, inst, parseCall, det, fetches>>

NoMap == [h \in Hosts |-> [has |-> FALSE, list |-> <<>>]]
setMap(map, host, list) == [map EXCEPT ![host] = [has |-> TRUE, list |-> list]]

\* ----------------------------------------------------- idle (unused) parts
NormIdle == [u |-> Abs(HostA, <<>>), applied |-> 0, once |-> Abs(HostA, <<>>), twice |-> Abs(HostA, <<>>)]
NoWeb == [h \in Hosts |-> [ok |-> FALSE, text |-> <<>>]]
AskedIdle == [done |-> FALSE, url |-> Abs(HostA, <<>>), ua |-> "*", allowed |-> TRUE]

RobotsIdle ==
  /\ robotsTxt = NoWeb
  /\ rules = NoMap
  /\ sitemaps = NoMap
  /\ inflight = [h \in Hosts |-> 0]
  /\ asked = AskedIdle

EngineIdle ==
  /\ call = NoCall
  /\ stats = NoStats
  /\ playwrightInstalled = FALSE
  /\ browserInstallPromise = "null"

NoSmap == [i |-> 0, st |-> "off", failed |-> FALSE]
NoDedup == [called |-> FALSE, url |-> Abs(HostA, <<>>), skip |-> FALSE, reason |-> <<>>,
            before |-> {}, first |-> {}]
NoSitemapRun ==
  [pc |-> "idle", entry |-> "parse", site |-> <<>>, loc |-> 0, toFetch |-> <<>>, j |-> 0,
   urls |-> <<>>, out |-> <<>>, fetched |-> <<>>, cache |-> <<>>, cached |-> FALSE]
NoRate ==
  [rateLimit |-> 0, concurrency |-> 0, waiting |-> 0, intervalCount |-> 0, requests |-> 0,
   running |-> <<>>]
NoContext == [open |-> FALSE, session |-> <<>>]
NoAuth ==
  [useAuth |-> FALSE, stored |-> {}, playwright |-> NoContext, rebrowser |-> NoContext,
   last |-> [engine |-> "", url |-> Abs(HostA, <<>>), context |-> NoContext]]
NoEngine ==
  [name |-> "", browser |-> 0, context |-> 0, launched |-> 0, created |-> 0,
   open |-> {}, openContexts |-> {}, calls |-> <<>>, closing |-> "no", left |-> [browsers |-> {}, contexts |-> {}]]
NoInstall == [callers |-> <<>>, runs |-> 0]
NoParse == [done |-> FALSE, host |-> HostA, failed |-> FALSE, ok |-> FALSE, settled |-> "pending"]
NoDet == [done |-> FALSE, html |-> Html(0, 0, 0, 0, 0, 0, FALSE, FALSE, FALSE), statusCode |-> 0,
          verdict |-> Verdict(FALSE, "")]
NoCheck == [calls |-> 0, url |-> Abs(HostA, <<>>), depth |-> 0, first |-> FALSE, second |-> FALSE]

\* A crawler that was constructed and never used.
NewCrawler ==
  /\ baseHosts = {}
  /\ visited = {}
  /\ tasks = <<>>
  /\ results = <<>>
  /\ yielded = <<>>
  /\ canonicalPaths = {}
  /\ gen = Gen("new", 0, 0)
  /\ smap = NoSmap
  /\ checked = NoCheck
  /\ dedup = NoDedup
  /\ sm = NoSitemapRun
  /\ rate = NoRate
  /\ closed = FALSE
  /\ auth = NoAuth
  /\ eng = NoEngine
  /\ inst = NoInstall
  /\ parseCall = NoParse
  /\ det = NoDet
  /\ fetches = <<>>

CrawlIdle ==
  /\ options = Options(2, 10, 150, TRUE, TRUE, "")
  /\ startUrls = <<>>
  /\ NewCrawler

\* ------------------------------------------------- normalizeUrl, exercised
NormHosts == {HostA, HostW, <<"httpbin", "org">>}
PathChars == {"/", "x"}
NormPaths == {p \in SeqsUpTo(PathChars, MaxPathLen) : p = <<>> \/ Head(p) = "/"}
NormParams == {"utm_source", "q"}
NormInputs ==
  {Url(k, h, p, q, f) : k \in {"abs", "bare", "bad"}, h \in NormHosts, p \in NormPaths,
                         q \in SeqsUpTo(NormParams, MaxQueryLen), f \in BOOLEAN}

NormInit ==
  /\ \E u \in NormInputs : norm = [NormIdle EXCEPT !.u = u]
  /\ RobotsIdle
  /\ EngineIdle
  /\ CrawlIdle

Normalize ==
  /\ norm.applied = 0
  /\ norm' = [norm EXCEPT !.applied = 1, !.once = normalizeUrl(norm.u)]
  /\ UNCHANGED <<robotsVars, engineVars, crawlVars>>

NormalizeAgain ==
  /\ norm.applied = 1
  /\ norm' = [norm EXCEPT !.applied = 2, !.twice = normalizeUrl(norm.once)]
  /\ UNCHANGED <<robotsVars, engineVars, crawlVars>>

NormNext == Normalize \/ NormalizeAgain

SpecNorm == NormInit /\ [][NormNext]_vars

\* C7: normalizeUrl(normalizeUrl(u)) = normalizeUrl(u) for every input u.
NormalizeIdempotent == norm.applied = 2 => norm.twice = norm.once

\* ------------------------------------------------- RobotsParser, exercised
PatA == <<"/", "a">>
PatAB == <<"/", "a", "/", "b">>
PatStarBEnd == <<"/", "*", "b", "$">>
RobotsPatterns == {<<"/">>, PatA, PatAB, PatStarBEnd}

RobotsLines ==
  {Line("user-agent", "*"), Line("user-agent", "Bot")}
  \cup {Line("allow", p) : p \in RobotsPatterns}
  \cup {Line("disallow", p) : p \in RobotsPatterns}

RobotsPaths ==
  {<<"/">>, <<"/", "a">>, <<"/", "a", "/", "b">>, <<"/", "a", "/", "b", "/", "c">>}

RobotsInit ==
  /\ norm = NormIdle
  /\ \E resp \in {[ok |-> TRUE, text |-> t] : t \in SeqsUpTo(RobotsLines, MaxLines)}
                  \cup {[ok |-> FALSE, text |-> <<>>]} :
       robotsTxt = [NoWeb EXCEPT ![HostA] = resp]
  /\ rules = NoMap
  /\ sitemaps = NoMap
  /\ inflight = [h \in Hosts |-> 0]
  /\ asked = AskedIdle
  /\ EngineIdle
  /\ CrawlIdle

\* RobotsParser.parse(url) up to its await: nothing to do when the host has
\* a record, else the request for /robots.txt is sent.
parseStart(host) ==
  /\ ~rules[host].has
  /\ inflight' = [inflight EXCEPT ![host] = @ + 1]

\* RobotsParser.parse(url) from the response on, as what it stores and how it
\* settles.  failed: fetch or response.text() threw (a network failure, or the
\* 5 s AbortSignal.timeout).  Here a throw is not caught.
afterRobotsFetchNoCatch(resp, failed) ==
  IF failed
  THEN [settled |-> "rejected", store |-> FALSE, rules |-> <<>>,
        hasSitemaps |-> FALSE, sitemaps |-> <<>>]
  ELSE IF ~resp.ok
  THEN [settled |-> "resolved", store |-> TRUE, rules |-> <<>>,
        hasSitemaps |-> FALSE, sitemaps |-> <<>>]
  ELSE The({[settled |-> "resolved", store |-> TRUE, rules |-> parsed.rules,
             hasSitemaps |-> TRUE, sitemaps |-> parsed.sitemaps] :
            parsed \in {parseRobotsTxt(resp.text)}})

\* RobotsParser.parse(url) from the response on, as what it stores and how it
\* settles: a non-OK response stores the empty rule list, a throw is caught
\* and stores the empty rule list too, an OK response stores what the text
\* parses to.  failed: fetch or response.text() threw (a network failure, or
\* the 5 s AbortSignal.timeout).
afterRobotsFetch(resp, failed) ==
  IF failed \/ ~resp.ok
  THEN [settled |-> "resolved", store |-> TRUE, rules |-> <<>>,
        hasSitemaps |-> FALSE, sitemaps |-> <<>>]
  ELSE The({[settled |-> "resolved", store |-> TRUE, rules |-> parsed.rules,
             hasSitemaps |-> TRUE, sitemaps |-> parsed.sitemaps] :
            parsed \in {parseRobotsTxt(resp.text)}})

\* The response of a robots.txt request of host reaches its parse call.
parseFinish(host, failed) ==
  /\ inflight[host] > 0
  /\ inflight' = [inflight EXCEPT ![host] = @ - 1]
  /\ \E r \in {afterRobotsFetch(robotsTxt[host], failed)} :
       /\ rules' = IF r.store THEN setMap(rules, host, r.rules) ELSE rules
       /\ sitemaps' = IF r.hasSitemaps THEN setMap(sitemaps, host, r.sitemaps) ELSE sitemaps

RobotsParseStart ==
  /\ ~asked.done
  /\ inflight[HostA] = 0
  /\ parseStart(HostA)
  /\ UNCHANGED <<norm, robotsTxt, rules, sitemaps, asked, engineVars, crawlVars>>

RobotsParseFinish ==
  /\ ~asked.done
  /\ \E failed \in BOOLEAN :
       /\ parseFinish(HostA, failed)
       /\ parseCall' = [done |-> TRUE, host |-> HostA, failed |-> failed,
                        ok |-> robotsTxt[HostA].ok,
                        settled |-> afterRobotsFetch(robotsTxt[HostA], failed).settled]
  /\ UNCHANGED <<norm, robotsTxt, asked, engineVars, options, startUrls, baseHosts,
                 visited, tasks, results, yielded, canonicalPaths, gen, smap,
                 checked, dedup, sm, rate, closed, auth, eng, inst, det, fetches>>

RobotsAsk ==
  /\ ~asked.done
  /\ inflight[HostA] = 0
  /\ \E url \in {Abs(HostA, p) : p \in RobotsPaths} \cup {Abs(HostB, PatA)}, ua \in {"*", "Bot"} :
       asked' = [done |-> TRUE, url |-> url, ua |-> ua,
                    allowed |-> isAllowed(rules, url, ua)]
  /\ UNCHANGED <<norm, robotsTxt, rules, sitemaps, inflight, engineVars, crawlVars>>

RobotsNext == RobotsParseStart \/ RobotsParseFinish \/ RobotsAsk

SpecRobots == RobotsInit /\ [][RobotsNext]_vars

\* The patterns that decide a verdict: every Allow/Disallow pattern of the
\* stored rule blocks for the user-agent or "*" that matches the path.
DecidingMatches(host, path, ua) ==
  {Match(r.allow[i], TRUE) : <<r, i>> \in
     {<<rr, ii>> \in {rules[host].list[k] : k \in DOMAIN rules[host].list} \X (1..MaxLines) :
        /\ rr.userAgent \in {toLowerCase(ua), "*"}
        /\ ii \in DOMAIN rr.allow /\ pathMatches(path, rr.allow[ii])}}
  \cup
  {Match(r.disallow[i], FALSE) : <<r, i>> \in
     {<<rr, ii>> \in {rules[host].list[k] : k \in DOMAIN rules[host].list} \X (1..MaxLines) :
        /\ rr.userAgent \in {toLowerCase(ua), "*"}
        /\ ii \in DOMAIN rr.disallow /\ pathMatches(path, rr.disallow[ii])}}

LongestVerdict(host, path, ua) ==
  LET M == DecidingMatches(host, path, ua)
  IN \/ M = {}
     \/ \E m \in M : m.isAllow /\ \A n \in M : Len(n.pattern) <= Len(m.pattern)

\* C10: isAllowed answers as the longest matching pattern says, Allow winning
\* a tie of lengths; with no matching pattern or no record it allows.
LongestMatchWins ==
  asked.done =>
    asked.allowed = (IF rules[asked.url.host].has
                     THEN LongestVerdict(asked.url.host, pathAndSearch(asked.url), asked.ua)
                     ELSE TRUE)

\* C10 witness: a Disallow and an equally long Allow both match and the URL is allowed.
LongestMatchWinsWitness ==
  /\ asked.done /\ asked.allowed /\ rules[asked.url.host].has
  /\ \E m, n \in DecidingMatches(asked.url.host, pathAndSearch(asked.url), asked.ua) :
       m.isAllow /\ ~n.isAllow /\ Len(m.pattern) = Len(n.pattern)

\* ----------------------------------------------- EngineWaterfall, exercised
HostX == <<"x", "com">>
EngineUrls == {Abs(HostA, <<"/">>), Abs(HostX, <<"/">>), Abs(<<"www", "x", "com">>, <<"/">>)}

Article == Html(8000, 0, 0, 0, 0, 0, FALSE, FALSE, FALSE)
CloudflareMention == Html(8000, 1, 0, 0, 0, 0, FALSE, FALSE, FALSE)
ChallengePage == Html(300, 2, 0, 0, 0, 1, FALSE, TRUE, FALSE)
Pages == {Article, CloudflareMention, ChallengePage}
Statuses == {200, 404, 429, 503}

Responses ==
  {Response(FALSE, sc, h) : sc \in Statuses, h \in Pages} \cup {Response(TRUE, 0, Article)}

EngineInit ==
  /\ norm = NormIdle
  /\ RobotsIdle
  /\ call = NoCall
  /\ stats = NoStats
  /\ playwrightInstalled \in BOOLEAN
  /\ browserInstallPromise = "null"
  /\ CrawlIdle

EngineFetch ==
  /\ call.pc = "idle"
  /\ \E url \in EngineUrls, forceEngine \in {"", "fetch", "playwright", "rebrowser"} :
       call' = fetchBegin(url, forceEngine)
  /\ UNCHANGED <<normVars, robotsVars, stats, playwrightInstalled, browserInstallPromise, crawlVars>>

\* One iteration of the loop of fetch (or the forced call): fetchWithEngine
\* runs for the next strategy and fetch continues to its next await or its end.
EngineAttempt ==
  /\ call.pc = "trying"
  /\ \E response \in Responses, installs \in BOOLEAN :
       LET engine == Head(call.todo)
           needed == engine \in BrowserEngines
           ensured == ensureBrowserInstalled(playwrightInstalled, browserInstallPromise, installs)
           a == fetchWithEngine(engine, ensured.ok, response)
           next == afterAttempt(call, stats, a)
       IN /\ call' = next.call
          /\ stats' = next.stats
          /\ browserInstallPromise' = IF needed THEN ensured.promise ELSE browserInstallPromise
  /\ UNCHANGED <<normVars, robotsVars, playwrightInstalled, crawlVars>>

EngineNext == EngineFetch \/ EngineAttempt

SpecEngine == EngineInit /\ [][EngineNext]_vars

LastAttempt(c) == c.attempts[Len(c.attempts)]

\* C8: with no strategy forced, fetch returns only a response that its own
\* strategy's classification found not blocked; a strategy whose response was
\* blocked (HTTP 429 for one) is never the one returned.
WaterfallNeverReturnsBlocked ==
  (call.pc = "returned" /\ call.force = "") =>
    /\ ~call.result.blocked
    /\ call.result.statusCode \notin {403, 429}
    /\ LastAttempt(call).engine = call.result.engine
    /\ ~LastAttempt(call).blocked
    /\ \A i \in DOMAIN call.attempts :
         (call.attempts[i].blocked \/ call.attempts[i].statusCode = 429)
           => call.attempts[i].engine # call.result.engine

\* C8 witness: plain fetch was answered 429 and a browser strategy's result is returned.
WaterfallNeverReturnsBlockedWitness ==
  /\ call.pc = "returned" /\ call.force = ""
  /\ \E i \in DOMAIN call.attempts :
       call.attempts[i].engine = "fetch" /\ call.attempts[i].statusCode = 429
  /\ call.result.engine \in BrowserEngines

\* C9: with a forced strategy no other strategy is ever attempted, at most one
\* attempt is made, and a response of that strategy is returned under its
\* name whatever its classification.
ForcedEngineOnly ==
  call.force # "" =>
    /\ Len(call.attempts) <= 1
    /\ \A i \in DOMAIN call.attempts : call.attempts[i].engine = call.force
    /\ call.pc \in {"returned", "threw"} => Len(call.attempts) = 1
    /\ (call.pc # "trying" /\ LastAttempt(call).called /\ ~LastAttempt(call).threw)
         => /\ call.pc = "returned"
            /\ call.result.engine = call.force
            /\ call.result.blocked = LastAttempt(call).blocked
    /\ call.pc = "returned" => LastAttempt(call).called /\ ~LastAttempt(call).threw

\* C9 witness: plain fetch forced on a known-protected host returns a blocked response.
ForcedEngineOnlyWitness ==
  /\ call.pc = "returned" /\ call.force = "fetch"
  /\ needsBrowser(call.url)
  /\ call.result.blocked /\ call.result.engine = "fetch"

\* ---------------------------------------------------------- Crawler, crawled
Root == Abs(HostA, <<"/">>)
PageP == Abs(HostA, <<"/", "p">>)
PagePSlash == Abs(HostA, <<"/", "p", "/">>)
PageEn == Abs(HostA, <<"/", "e", "n", "/", "x">>)
Elsewhere == Abs(HostB, <<"/">>)
CrawlUrls == {Root, PageP, PagePSlash, PageEn, Elsewhere}

SeedLists ==
  {<<Root>>, <<Url("bare", HostA, <<>>, <<>>, FALSE), PageEn>>, <<PageP, PagePSlash>>}

\* What the crawled hosts serve at /robots.txt: a.com and www.a.com both
\* disallow /p for every user-agent, b.org has no robots.txt.
DisallowP == <<Line("user-agent", "*"), Line("disallow", <<"/", "p">>)>>
CrawlWeb ==
  [h \in Hosts |-> IF h = HostB THEN [ok |-> FALSE, text |-> <<>>]
                   ELSE [ok |-> TRUE, text |-> DisallowP]]

LinkLists ==
  {l \in SeqsUpTo(CrawlUrls, MaxLinks) : \A i, j \in DOMAIN l : i # j => l[i] # l[j]}

CrawlResponses ==
  {Response(FALSE, 200, Article), Response(FALSE, 429, Article),
   Response(FALSE, 404, Article), Response(TRUE, 0, Article)}

\* What extractor.extract can do: throw, or return a word count and links.
MIN_WORDS == 20
Extraction(threw, wordCount, links) == [threw |-> threw, wordCount |-> wordCount, links |-> links]
Extractions ==
  {Extraction(TRUE, 0, <<>>), Extraction(FALSE, 19, <<>>)}
  \cup {Extraction(FALSE, 20, l) : l \in LinkLists}

\* A CrawlResult: url, depth, engine and the extracted word count, and with
\* them the engine result it was made from.
CrawlResult(url, depth, result, extracted) ==
  [url |-> url, depth |-> depth, engine |-> result.engine,
   wordCount |-> extracted.wordCount, fetched |-> result]

Init ==
  /\ norm = NormIdle
  /\ asked = AskedIdle
  /\ call = NoCall
  /\ robotsTxt = CrawlWeb
  /\ rules = NoMap
  /\ sitemaps = NoMap
  /\ inflight = [h \in Hosts |-> 0]
  /\ stats = NoStats
  /\ playwrightInstalled = TRUE
  /\ browserInstallPromise = "null"
  /\ options \in {Options(d, c, m, rr, us, "") :
                    d \in 0..MaxDepth, c \in {1, 2}, m \in 0..MaxPages,
                    rr \in BOOLEAN, us \in BOOLEAN}
  /\ startUrls \in SeedLists
  /\ NewCrawler

harnessVars == <<norm, asked, call, checked, dedup, sm, rate, closed, auth, eng, inst, parseCall, det, fetches>>

normalizedUrls == [i \in DOMAIN startUrls |-> normalizeUrl(startUrls[i])]

\* queue.size > 0, with queue.pending left out
busyWaitingOnly(tsk) == \E i \in DOMAIN tsk : tsk[i].st = "queued"
\* queue.size > 0 || queue.pending > 0
busy(tsk) == \E i \in DOMAIN tsk : tsk[i].st # "done"
pending(tsk) == Cardinality({i \in DOMAIN tsk : tsk[i].st \in {"fetching", "extracting"}})

\* crawl() from the end of the robots wait to its next await or yield:
\* parseSitemaps is started, or the drain loop is entered.
afterRobots(res, out, tsk) ==
  IF options.useSitemap /\ startUrls # <<>>
  THEN [run |-> Run(Gen("sitemap", 0, 0), res, out), smap |-> [i |-> 1, st |-> "fetching", failed |-> FALSE]]
  ELSE [run |-> loopTop(Gen("drain", 0, 0), res, out, options, IdleTicks, busy(tsk)),
        smap |-> smap]

\* The first next() of the consumer: crawl() runs to its first await.
CrawlBegin ==
  /\ gen.pc = "new"
  /\ baseHosts' = {getBaseDomain(normalizedUrls[i]) : i \in DOMAIN normalizedUrls}
  /\ LET f == addSeeds(Frontier(visited, tasks, canonicalPaths), options, normalizedUrls)
     IN /\ visited' = f.visited
        /\ tasks' = f.tasks
        /\ IF options.respectRobots
           THEN /\ inflight' = [h \in Hosts |->
                      Cardinality({i \in DOMAIN normalizedUrls :
                                     normalizedUrls[i].host = h /\ ~rules[h].has})]
                /\ gen' = Gen("robots", 0, 0)
                /\ UNCHANGED <<smap, results, yielded>>
           ELSE LET next == afterRobots(results, yielded, f.tasks)
                IN /\ gen' = next.run.gen
                   /\ results' = next.run.results
                   /\ yielded' = next.run.yielded
                   /\ smap' = next.smap
                   /\ UNCHANGED inflight
  /\ UNCHANGED <<harnessVars, robotsTxt, rules, sitemaps, engineVars, options, startUrls,
                 canonicalPaths>>

\* A robots.txt request of the crawl is answered, or fails.
RobotsResponse ==
  /\ gen.pc # "new"
  /\ \E h \in Hosts, failed \in BOOLEAN : parseFinish(h, failed)
  /\ UNCHANGED <<harnessVars, robotsTxt, engineVars, options, startUrls, baseHosts,
                 visited, tasks, results, yielded, canonicalPaths, gen, smap>>

\* try { await Promise.race([work, timer]) } catch {} with the catch left
\* out: the rejection of the timer leaves crawl().
afterRaceNoCatch(timedOut) == IF timedOut THEN "throw" ELSE "continue"
\* try { await Promise.race([work, timer]) } catch {}: crawl() goes on
\* whether the work resolved or the timer rejected the race.
afterRace(timedOut) == "continue"

RobotsContinue(timedOut) ==
  IF afterRace(timedOut) = "throw"
  THEN /\ gen' = [gen EXCEPT !.pc = "threw"]
       /\ UNCHANGED <<harnessVars, robotsVars, engineVars, options, startUrls, baseHosts,
                      visited, tasks, canonicalPaths, results, yielded, smap>>
  ELSE LET next == afterRobots(results, yielded, tasks)
       IN /\ gen' = next.run.gen
          /\ results' = next.run.results
          /\ yielded' = next.run.yielded
          /\ smap' = next.smap
          /\ UNCHANGED <<harnessVars, robotsVars, engineVars, options, startUrls, baseHosts,
                         visited, tasks, canonicalPaths>>

\* Promise.all of the robots parses settled before the 3 s timer.
RobotsSettled ==
  /\ gen.pc = "robots"
  /\ \A h \in Hosts : inflight[h] = 0
  /\ RobotsContinue(FALSE)

\* The 3 s timer fired first; the requests stay in flight.
RobotsTimeout ==
  /\ gen.pc = "robots"
  /\ \E h \in Hosts : inflight[h] > 0
  /\ RobotsContinue(TRUE)

\* What sitemap.parse / sitemap.parseUrl resolve to: the URLs of the sitemap,
\* or none when every request failed, was not OK or timed out.
sitemapResult(failed, urls) == IF failed THEN <<>> ELSE urls

\* The sitemap lookup for the seed parseSitemaps is at resolved with
\* sitemapUrls (empty when it failed): its first min(maxPages, 50) URLs go
\* through admission at depth 1, then the next seed's sitemap is requested.
SitemapReturn ==
  /\ smap.st = "fetching"
  /\ LET limit == Min(options.maxPages, DEFAULT_SITEMAP_CAP)
     IN \E o \in {[failed |-> failed,
                    f |-> admitAll(Frontier(visited, tasks, canonicalPaths), options, rules,
                                   baseHosts, SubSeq(sitemapUrls, 1, Min(limit, Len(sitemapUrls))),
                                   1, "sitemap")] :
                     <<failed, sitemapUrls>> \in
                       {<<fl, sitemapResult(fl, l)>> : fl \in BOOLEAN, l \in LinkLists}} :
          /\ visited' = o.f.visited
          /\ tasks' = o.f.tasks
          /\ canonicalPaths' = o.f.canonicalPaths
          /\ smap' = IF smap.i < Len(startUrls)
                     THEN [smap EXCEPT !.i = @ + 1, !.failed = o.failed]
                     ELSE [smap EXCEPT !.st = "done", !.failed = o.failed]
  /\ UNCHANGED <<harnessVars, robotsVars, engineVars, options, startUrls, baseHosts,
                 results, yielded, gen>>

SitemapContinue(timedOut) ==
  IF afterRace(timedOut) = "throw"
  THEN /\ gen' = [gen EXCEPT !.pc = "threw"]
       /\ UNCHANGED <<harnessVars, robotsVars, engineVars, options, startUrls, baseHosts,
                      visited, tasks, canonicalPaths, results, yielded, smap>>
  ELSE LET next == loopTop(Gen("drain", 0, 0), results, yielded, options, IdleTicks, busy(tasks))
       IN /\ gen' = next.gen
          /\ results' = next.results
          /\ yielded' = next.yielded
          /\ UNCHANGED <<harnessVars, robotsVars, engineVars, options, startUrls, baseHosts,
                         visited, tasks, canonicalPaths, smap>>

\* parseSitemaps resolved before the 5 s timer.
SitemapSettled ==
  /\ gen.pc = "sitemap"
  /\ smap.st = "done"
  /\ SitemapContinue(FALSE)

\* The 5 s timer fired first; parseSitemaps goes on in the background.
SitemapTimeout ==
  /\ gen.pc = "sitemap"
  /\ smap.st = "fetching"
  /\ SitemapContinue(TRUE)

mayStartAlways(tsk, opts) == TRUE
\* PQueue may start a waiting function while fewer than `concurrency` run.
mayStart(tsk, opts) == pending(tsk) < opts.concurrency

\* The queue starts its oldest waiting function while fewer than
\* options.concurrency are running: processUrl runs up to engine.fetch.
TaskStart ==
  /\ \E i \in DOMAIN tasks :
       /\ tasks[i].st = "queued"
       /\ \A j \in 1..(i - 1) : tasks[j].st # "queued"
       /\ mayStart(tasks, options)
       /\ tasks' = [tasks EXCEPT ![i].st = "fetching", ![i].runs = @ + 1]
  /\ UNCHANGED <<harnessVars, robotsVars, engineVars, options, startUrls, baseHosts,
                 visited, results, yielded, canonicalPaths, gen, smap>>

\* processUrl without its try/catch: a fetch that threw rejects the promise of
\* the task.
afterFetchNoCatch(c) ==
  IF c.pc = "threw" THEN "rejected"
  ELSE IF c.result.blocked THEN "done"
  ELSE IF c.result.statusCode >= 400 THEN "done"
  ELSE "extracting"

\* processUrl after engine.fetch settled with call c: dropped when the call
\* threw, was blocked or answered 400 and above, else on to the extractor.
afterFetch(c) ==
  IF c.pc = "threw" THEN "done"
  ELSE IF c.result.blocked THEN "done"
  ELSE IF c.result.statusCode >= 400 THEN "done"
  ELSE "extracting"

\* Every way engine.fetch of one task can settle.  The call touches only the
\* waterfall's own state, so the crawl sees it settle in one step.
FetchOutcomes(url) ==
  {runFetch(fetchBegin(url, options.forceEngine), stats, playwrightInstalled,
            browserInstallPromise, responses, installs) :
     responses \in [{"fetch", "playwright", "rebrowser"} -> CrawlResponses],
     installs \in BOOLEAN}

\* engine.fetch of a running task settles.
TaskFetched ==
  /\ \E i \in DOMAIN tasks :
       /\ tasks[i].st = "fetching"
       /\ \E o \in FetchOutcomes(tasks[i].url) :
            /\ tasks' = [tasks EXCEPT ![i].st = afterFetch(o.call),
                                      ![i].call = IF afterFetch(o.call) = "done" THEN NoCall
                                                  ELSE [o.call EXCEPT !.attempts = <<>>]]
            /\ stats' = o.stats
            /\ browserInstallPromise' = o.promise
  /\ UNCHANGED <<harnessVars, robotsVars, call, playwrightInstalled, options, startUrls,
                 baseHosts, visited, results, yielded, canonicalPaths, gen, smap>>

\* engine.fetch of a running task settles with every engine it tries ended
\* by its timeout: one of the steps of TaskFetched.
TaskFetchTimedOut ==
  /\ \E i \in DOMAIN tasks :
       /\ tasks[i].st = "fetching"
       /\ \E o \in {runFetch(fetchBegin(tasks[i].url, options.forceEngine), stats,
                              playwrightInstalled, browserInstallPromise,
                              [e \in {"fetch", "playwright", "rebrowser"} |->
                                 Response(TRUE, 0, Article)], FALSE)} :
            /\ tasks' = [tasks EXCEPT ![i].st = afterFetch(o.call),
                                      ![i].call = IF afterFetch(o.call) = "done" THEN NoCall
                                                  ELSE [o.call EXCEPT !.attempts = <<>>]]
            /\ stats' = o.stats
            /\ browserInstallPromise' = o.promise
  /\ UNCHANGED <<harnessVars, robotsVars, call, playwrightInstalled, options, startUrls,
                 baseHosts, visited, results, yielded, canonicalPaths, gen, smap>>

\* processUrl after extractor.extract settled, without the test of wordCount.
afterExtractNoWordTest(i, extracted) ==
  LET t == tasks[i]
      kept == ~extracted.threw
      f0 == Frontier(visited, [tasks EXCEPT ![i].st = "done", ![i].call = NoCall],
                     canonicalPaths)
  IN [results |-> IF kept
                  THEN Append(results, CrawlResult(t.url, t.depth, t.call.result, extracted))
                  ELSE results,
      frontier |-> IF kept /\ t.depth < options.depth
                   THEN admitAll(f0, options, rules, baseHosts, extracted.links,
                                 t.depth + 1, "link")
                   ELSE f0]

\* processUrl after extractor.extract settled for task i: the result is
\* buffered unless the extractor threw or found too few words, and the links
\* of a page above the depth limit go through admission one level deeper.
afterExtract(i, extracted) ==
  LET t == tasks[i]
      kept == ~extracted.threw /\ extracted.wordCount >= MIN_WORDS
      f0 == Frontier(visited, [tasks EXCEPT ![i].st = "done", ![i].call = NoCall],
                     canonicalPaths)
  IN [results |-> IF kept
                  THEN Append(results, CrawlResult(t.url, t.depth, t.call.result, extracted))
                  ELSE results,
      frontier |-> IF kept /\ t.depth < options.depth
                   THEN admitAll(f0, options, rules, baseHosts, extracted.links,
                                 t.depth + 1, "link")
                   ELSE f0]

\* The extractor of a running task settled.
TaskExtract ==
  /\ \E i \in DOMAIN tasks :
       /\ tasks[i].st = "extracting"
       /\ \E next \in {afterExtract(i, extracted) : extracted \in Extractions} :
            /\ results' = next.results
            /\ visited' = next.frontier.visited
            /\ tasks' = next.frontier.tasks
            /\ canonicalPaths' = next.frontier.canonicalPaths
  /\ UNCHANGED <<harnessVars, robotsVars, engineVars, options, startUrls, baseHosts,
                 yielded, gen, smap>>

\* The extractor of a running task settles with too few words for a result:
\* one of the steps of TaskExtract.
TaskExtractShort ==
  /\ \E i \in DOMAIN tasks :
       /\ tasks[i].st = "extracting"
       /\ \E next \in {afterExtract(i, Extraction(FALSE, MIN_WORDS - 1, <<>>))} :
            /\ results' = next.results
            /\ visited' = next.frontier.visited
            /\ tasks' = next.frontier.tasks
            /\ canonicalPaths' = next.frontier.canonicalPaths
  /\ UNCHANGED <<harnessVars, robotsVars, engineVars, options, startUrls, baseHosts,
                 yielded, gen, smap>>

\* The consumer asks for the next result: the generator resumes after its yield.
ConsumerNext ==
  /\ gen.pc \in {"yield", "flushyield"}
  /\ LET next == IF gen.pc = "yield"
                 THEN drain([gen EXCEPT !.yieldedCount = @ + 1, !.idle = 0],
                            results, yielded, options, IdleTicks)
                 ELSE flush(gen, results, yielded)
     IN /\ gen' = next.gen
        /\ results' = next.results
        /\ yielded' = next.yielded
  /\ UNCHANGED <<harnessVars, robotsVars, engineVars, options, startUrls, baseHosts,
                 visited, tasks, canonicalPaths, smap>>

\* The 50 ms wait of the drain loop is over; at least one tick has passed.
SleepDone ==
  /\ gen.pc = "sleep"
  /\ \E passed \in {1, IdleTicks + 1} :
       LET next == loopTop([gen EXCEPT !.idle = Min(@ + passed, IdleTicks + 1)],
                           results, yielded, options, IdleTicks, busy(tasks))
       IN /\ gen' = next.gen
          /\ results' = next.results
          /\ yielded' = next.yielded
  /\ UNCHANGED <<harnessVars, robotsVars, engineVars, options, startUrls, baseHosts,
                 visited, tasks, canonicalPaths, smap>>

Generator ==
  \/ CrawlBegin \/ RobotsSettled \/ RobotsTimeout \/ SitemapSettled \/ SitemapTimeout
  \/ ConsumerNext \/ SleepDone

Next ==
  \/ CrawlBegin \/ RobotsResponse \/ RobotsSettled \/ RobotsTimeout
  \/ SitemapReturn \/ SitemapSettled \/ SitemapTimeout
  \/ TaskStart \/ TaskFetched \/ TaskExtract
  \/ ConsumerNext \/ SleepDone

Spec == Init /\ [][Next]_vars

\* The timers fire and the consumer keeps pulling; no request need ever return.
LiveSpec == Spec /\ WF_vars(Generator)

\* Init with the engine forced to "fetch" (the --engine option): which
\* engine answers a task is no part of discovery.
ForcedInit ==
  /\ norm = NormIdle
  /\ asked = AskedIdle
  /\ call = NoCall
  /\ robotsTxt = CrawlWeb
  /\ rules = NoMap
  /\ sitemaps = NoMap
  /\ inflight = [h \in Hosts |-> 0]
  /\ stats = NoStats
  /\ playwrightInstalled = TRUE
  /\ browserInstallPromise = "null"
  /\ options \in {Options(d, c, m, rr, us, "fetch") :
                    d \in 0..MaxDepth, c \in {1, 2}, m \in 0..MaxPages,
                    rr \in BOOLEAN, us \in BOOLEAN}
  /\ startUrls \in SeedLists
  /\ NewCrawler

\* The timers fire, the consumer keeps pulling, the queue starts what it may
\* start and no started function stays pending for ever: a request that does
\* not come back is ended by the timeout of its engine, and the extractor
\* returns.  No robots.txt or sitemap request need ever return.
LiveTaskSpec ==
  ForcedInit /\ [][Next]_vars /\ WF_vars(Generator) /\ WF_vars(TaskStart)
             /\ WF_vars(TaskFetchTimedOut) /\ WF_vars(TaskExtractShort)

\* C1: the results yielded by one crawl, in the drain loop and the final
\* flush together, never number more than maxPages.
YieldedWithinMaxPages == Len(yielded) <= options.maxPages

\* The crawl ended having yielded maxPages results, one of them a seed and
\* another found through a sitemap or a link.
YieldedWithinMaxPagesWitness ==
  /\ gen.pc = "done"
  /\ options.maxPages = MaxPages
  /\ Len(yielded) = options.maxPages
  /\ \E i \in DOMAIN yielded : yielded[i].depth = 0 /\ options.depth > 0
  /\ \E i \in DOMAIN tasks : tasks[i].via # "seed"

\* C2: no yielded result has a depth above the depth option: seeds are at
\* depth 0, sitemap URLs and links one level deeper only within the option.
YieldedWithinDepth ==
  /\ \A i \in DOMAIN yielded : yielded[i].depth <= options.depth
  /\ \A i \in DOMAIN tasks :
       /\ tasks[i].via = "seed" => tasks[i].depth = 0
       /\ tasks[i].via = "sitemap" => tasks[i].depth = 1 /\ 1 <= options.depth
       /\ tasks[i].via = "link" => tasks[i].depth >= 1 /\ tasks[i].depth <= options.depth

\* A result of the deepest level allowed was yielded.
YieldedWithinDepthWitness ==
  /\ options.depth = MaxDepth
  /\ \E i \in DOMAIN yielded : yielded[i].depth = options.depth

\* C3: no two fetch tasks are ever created for URLs of one normalized form,
\* and a task's normalized URL is in the visited set from its creation on.
OneTaskPerNormalizedUrl ==
  /\ \A i, j \in DOMAIN tasks :
       normalizeUrl(tasks[i].url) = normalizeUrl(tasks[j].url) => i = j
  /\ \A i \in DOMAIN tasks : normalizeUrl(tasks[i].url) \in visited

\* Two seeds of one normalized form made one task, with budget left for the
\* URL that sitemap discovery or a fetch task added while the first ran.
OneTaskPerNormalizedUrlWitness ==
  /\ Len(startUrls) = 2
  /\ normalizeUrl(startUrls[1]) = normalizeUrl(startUrls[2])
  /\ Len(tasks) = 2
  /\ tasks[2].via # "seed"
  /\ options.concurrency = 2

\* C4: with respectRobots on, every URL admitted as a link or from a sitemap
\* is allowed for user-agent * by the robots.txt its own host serves.
RobotsTruth == [h \in Hosts |-> [has |-> TRUE,
                                 list |-> IF robotsTxt[h].ok
                                          THEN parseRobotsTxt(robotsTxt[h].text).rules
                                          ELSE <<>>]]
AdmittedAllowedByRobots ==
  options.respectRobots =>
    \A i \in DOMAIN tasks :
      tasks[i].via # "seed" => isAllowed(RobotsTruth, tasks[i].url, "*")

\* C5: the generator of crawl() always ends, whatever the requests do.
CrawlEnds == <>(gen.pc = "done")

\* The generator ended while a fetch task was still running and the
\* robots.txt request had not come back.
CrawlEndsWitness ==
  /\ gen.pc = "done"
  /\ \E i \in DOMAIN tasks : tasks[i].st = "fetching"
  /\ \E h \in Hosts : inflight[h] > 0
  /\ smap.st = "fetching"

\* ------------------------------------------------- shouldCrawl, exercised
\* A crawl that has begun is asked the same admission question twice in a
\* row; nothing is added to the queue in between.
PageDe == Abs(HostA, <<"/", "d", "e", "/", "x">>)
PageX == Abs(HostA, <<"/", "x">>)
Malformed == Url("bad", HostA, <<"/", "x">>, <<>>, FALSE)
AdmissionUrls == CrawlUrls \cup {PageDe, PageX, Malformed}

AdmissionCheck ==
  /\ gen.pc # "new"
  /\ checked.calls # 1
  /\ \E url \in AdmissionUrls, depth \in 0..(MaxDepth + 1) :
       LET r == shouldCrawl(Frontier(visited, tasks, canonicalPaths), options, rules,
                            baseHosts, url, depth)
       IN /\ checked' = [calls |-> 1, url |-> url, depth |-> depth,
                         first |-> r.ok, second |-> FALSE]
          /\ canonicalPaths' = r.canonicalPaths
  /\ UNCHANGED <<norm, asked, call, dedup, sm, rate, closed, auth, eng, inst, parseCall, det, fetches, robotsVars, engineVars, options, startUrls,
                 baseHosts, visited, tasks, results, yielded, gen, smap>>

AdmissionRecheck ==
  /\ checked.calls = 1
  /\ LET r == shouldCrawl(Frontier(visited, tasks, canonicalPaths), options, rules,
                          baseHosts, checked.url, checked.depth)
     IN /\ checked' = [checked EXCEPT !.calls = 2, !.second = r.ok]
        /\ canonicalPaths' = r.canonicalPaths
  /\ UNCHANGED <<norm, asked, call, dedup, sm, rate, closed, auth, eng, inst, parseCall, det, fetches, robotsVars, engineVars, options, startUrls,
                 baseHosts, visited, tasks, results, yielded, gen, smap>>

\* A robots.txt answer arrives, but not between the two calls.
AdmissionRobots == checked.calls # 1 /\ RobotsResponse

AdmissionNext == CrawlBegin \/ AdmissionRobots \/ AdmissionCheck \/ AdmissionRecheck

SpecAdmission == Init /\ [][AdmissionNext]_vars

\* C6: two consecutive calls of shouldCrawl(url, depth) with the same visited
\* set, nothing admitted in between, return the same boolean.
AdmissionCheckRepeatable == checked.calls = 2 => checked.first = checked.second

\* ------------------------------------------- DedupTracker.shouldSkip, exercised
\* A new DedupTracker is asked about one URL after another.
DedupUrls ==
  {Abs(HostA, <<"/", "e", "n", "/", "x">>), Abs(HostA, <<"/", "d", "e", "/", "x">>),
   Abs(HostA, <<"/", "x">>), Abs(HostA, <<"/", "e", "n", "-", "u", "s", "/", "x">>),
   Abs(HostA, <<"/", "d", "e", "-", "d", "e", "/", "x">>),
   Abs(HostA, <<"/", "u", "s", "/", "x">>), Abs(HostA, <<"/", "e", "n">>),
   Abs(HostA, <<"/", "d", "e">>), Abs(HostW, <<"/", "d", "e", "/", "x">>),
   Url("abs", HostA, <<"/", "x">>, <<"lang=de">>, FALSE),
   Abs(HostA, <<"/", "x", "/", "u", "s", "/", "y">>),
   Abs(HostA, <<"/", "x", "/", "d", "e", "/", "y">>)}

keyOf(url) == <<url.host, extractLocale(url).canonicalPath>>

DedupInit ==
  /\ norm = NormIdle
  /\ RobotsIdle
  /\ EngineIdle
  /\ CrawlIdle

DedupSkip ==
  /\ \E url \in DedupUrls :
       \E r \in {shouldSkip(canonicalPaths, url)} :
         /\ canonicalPaths' = r.map
         /\ dedup' = [called |-> TRUE, url |-> url, skip |-> r.skip, reason |-> r.reason,
                      before |-> canonicalPaths,
                      first |-> IF \E x \in dedup.first : x.key = keyOf(url) THEN dedup.first
                                ELSE dedup.first \cup {Entry(keyOf(url), url,
                                                             extractLocale(url).locale)}]
  /\ UNCHANGED <<norm, asked, call, checked, sm, rate, closed, auth, eng, inst, parseCall, det, fetches, robotsVars, engineVars, options, startUrls,
                 baseHosts, visited, tasks, results, yielded, gen, smap>>

DedupNext == DedupSkip

SpecDedup == DedupInit /\ [][DedupNext]_vars

\* The entries of a map for the key of url.
entriesFor(map, url) == {x \in map : x.key = keyOf(url)}

MAX_URLS == 200

Null == [kind |-> "null", children |-> <<>>, n |-> 0]
Urlset(n) == [kind |-> "urlset", children |-> <<>>, n |-> n]
SitemapIndex(children) == [kind |-> "index", children |-> children, n |-> 0]

slice(s, from, to) == SubSeq(s, from + 1, Min(to, Len(s)))

parseUrlset(l, k, content) == [i \in 1..content.n |-> <<l, k, i>>]
parseSitemapIndex(content) == [k \in 1..Len(content.children) |-> k]

childrenToFetchAll(indexUrls) == indexUrls
childrenToFetch(indexUrls) == slice(indexUrls, 0, 2)

\* parse, after one location has been dealt with: the loop of lines 53-67 and
\* the return of lines 69-70
nextLocation(r, parsed) ==
  LET out == r.out \o parsed
  IN IF Len(out) > 0 \/ r.loc = Len(r.site)
     THEN [r EXCEPT !.pc = "done", !.out = out, !.urls = <<>>, !.toFetch = <<>>,
                    !.cache = IF r.entry = "parse" THEN out ELSE r.cache,
                    !.cached = r.cached \/ r.entry = "parse"]
     ELSE [r EXCEPT !.pc = "location", !.out = out, !.loc = r.loc + 1, !.urls = <<>>,
                    !.toFetch = <<>>]

\* parseSitemapContent at the top of its loop over the child sitemaps
childLoop(r) ==
  IF r.j > Len(r.toFetch) \/ Len(r.urls) >= MAX_URLS
  THEN nextLocation(r, slice(r.urls, 0, MAX_URLS))
  ELSE [r EXCEPT !.pc = "child"]

\* parse / parseUrl when fetchSitemap has returned the document of a location
parseSitemapContent(r, content) ==
  IF content.kind = "null" THEN nextLocation(r, <<>>)
  ELSE IF content.kind = "index"
  THEN childLoop([r EXCEPT !.toFetch = childrenToFetch(parseSitemapIndex(content)),
                           !.j = 1, !.urls = <<>>])
  ELSE nextLocation(r, slice(slice(parseUrlset(r.loc, 0, content), 0, MAX_URLS), 0, MAX_URLS))

\* parseSitemapContent when fetchSitemap has returned a child sitemap
afterChild(r, k, subContent) ==
  LET subUrls == parseUrlset(r.loc, k, subContent)
      urls == IF subContent.kind = "null" THEN r.urls
              ELSE r.urls \o slice(subUrls, 0, MAX_URLS - Len(r.urls))
  IN childLoop([r EXCEPT !.urls = urls, !.j = r.j + 1,
                         !.fetched = Append(r.fetched, <<r.loc, k>>)])

ChildDocs == {Null, Urlset(0), Urlset(MidSitemap), Urlset(BigSitemap)}
FirstDocs ==
  {Null, Urlset(0), Urlset(2), Urlset(BigSitemap)}
    \cup {SitemapIndex(c) : c \in SeqsUpTo(ChildDocs, MaxChildren)}
LaterDocs ==
  {Null, Urlset(2),
   SitemapIndex([k \in 1..MaxChildren |-> IF k = 1 THEN Urlset(MidSitemap)
                                          ELSE Urlset(BigSitemap)])}

SitemapInit ==
  /\ norm = NormIdle /\ RobotsIdle /\ EngineIdle
  /\ options = Options(0, 1, 0, FALSE, FALSE, "")
  /\ startUrls = <<>> /\ baseHosts = {} /\ visited = {} /\ tasks = <<>>
  /\ results = <<>> /\ yielded = <<>> /\ canonicalPaths = {}
  /\ gen = Gen("new", 0, 0) /\ smap = NoSmap /\ checked = NoCheck /\ dedup = NoDedup
  /\ closed = FALSE /\ auth = NoAuth /\ eng = NoEngine
  /\ inst = NoInstall
  /\ parseCall = NoParse
  /\ det = NoDet
  /\ fetches = <<>>
  /\ rate = NoRate
  /\ \E first \in FirstDocs, second \in LaterDocs, third \in LaterDocs :
       \/ sm = [NoSitemapRun EXCEPT !.pc = "location", !.entry = "parse",
                                    !.site = <<first, second, third>>, !.loc = 1]
       \/ /\ second = Null /\ third = Null
          /\ sm = [NoSitemapRun EXCEPT !.pc = "location", !.entry = "parseUrl",
                                       !.site = <<first>>, !.loc = 1]

\* fetchSitemap returns the document of a location (null when the request
\* failed) and the parser goes on to its next request or to its return.
SitemapFetched ==
  /\ sm.pc = "location"
  /\ sm' = parseSitemapContent(sm, sm.site[sm.loc])
  /\ UNCHANGED <<norm, asked, call, checked, dedup, rate, closed, auth, eng, inst, parseCall, det, fetches, robotsVars, engineVars, options, startUrls,
                 baseHosts, visited, tasks, results, yielded, canonicalPaths, gen, smap>>

\* fetchSitemap returns a child sitemap of the index.
SitemapChildFetched ==
  /\ sm.pc = "child"
  /\ \E k \in {sm.toFetch[sm.j]} :
       sm' = afterChild(sm, k, sm.site[sm.loc].children[k])
  /\ UNCHANGED <<norm, asked, call, checked, dedup, rate, closed, auth, eng, inst, parseCall, det, fetches, robotsVars, engineVars, options, startUrls,
                 baseHosts, visited, tasks, results, yielded, canonicalPaths, gen, smap>>

\* a second parse of the same host answers from the cache, without a request
SitemapCached ==
  /\ sm.pc = "done" /\ sm.entry = "parse" /\ sm.cached
  /\ sm' = [sm EXCEPT !.pc = "again", !.out = sm.cache]
  /\ UNCHANGED <<norm, asked, call, checked, dedup, rate, closed, auth, eng, inst, parseCall, det, fetches, robotsVars, engineVars, options, startUrls,
                 baseHosts, visited, tasks, results, yielded, canonicalPaths, gen, smap>>

SitemapNext == SitemapFetched \/ SitemapChildFetched \/ SitemapCached

SpecSitemap == SitemapInit /\ [][SitemapNext]_vars

\* C12: a run of sitemap discovery returns at most 200 URLs; the URLs it
\* takes from a sitemap index all come from the first two child sitemaps the
\* index lists, and it fetches no child beyond the first two; a plain urlset
\* contributes its first 200 URLs at most.
SitemapCap ==
  /\ \A f \in 1..Len(sm.fetched) : sm.fetched[f][2] \in {1, 2}
  /\ sm.pc \in {"done", "again"} =>
       /\ Len(sm.out) <= MAX_URLS
       /\ \A i \in 1..Len(sm.out) :
            LET u == sm.out[i]
            IN IF sm.site[u[1]].kind = "index"
               THEN u[2] \in {1, 2} /\ Len(sm.site[u[1]].children) >= u[2]
               ELSE u[2] = 0 /\ u[3] <= MAX_URLS

SitemapCapWitness ==
  /\ sm.pc = "done"
  /\ Len(sm.out) = MAX_URLS
  /\ sm.site[sm.loc].kind = "index"
  /\ Len(sm.site[sm.loc].children) = MaxChildren
  /\ sm.site[sm.loc].children[MaxChildren].n = BigSitemap
  /\ sm.fetched = <<<<sm.loc, 1>>, <<sm.loc, 2>>>>
  /\ \E i \in 1..Len(sm.out) : sm.out[i][2] = 2

\* ------------------------------------------- crawls with more options set
\* Crawls of a seed at www.a.com or at a.com/p, with and without an include
\* or exclude pattern and a forced engine.
RootW == Abs(HostW, <<"/">>)
OptionSeeds == {<<RootW>>, <<PageP>>, <<Root, PageEn>>}
OptionPatterns == {<<"", "">>, <<"/p", "">>, <<"", "/p">>}

OptionsInit ==
  /\ norm = NormIdle
  /\ asked = AskedIdle
  /\ call = NoCall
  /\ robotsTxt = CrawlWeb
  /\ rules = NoMap
  /\ sitemaps = NoMap
  /\ inflight = [h \in Hosts |-> 0]
  /\ stats = NoStats
  /\ playwrightInstalled = TRUE
  /\ browserInstallPromise = "null"
  /\ options \in {[Options(MaxDepth, 2, MaxPages, discover, discover, forceEngine)
                     EXCEPT !.includePattern = p[1], !.excludePattern = p[2]] :
                    discover \in BOOLEAN, forceEngine \in {"", "fetch"},
                    p \in OptionPatterns}
  /\ startUrls \in OptionSeeds
  /\ NewCrawler

SpecOptions == OptionsInit /\ [][Next]_vars

\* C13: every URL a fetch task was created for, whether seed, link or
\* sitemap URL, has the base domain (hostname without a leading "www.") of
\* one of the seed URLs.
TasksOnSeedDomains ==
  \A i \in DOMAIN tasks :
    \E s \in DOMAIN startUrls : getBaseDomain(tasks[i].url) = getBaseDomain(startUrls[s])

TasksOnSeedDomainsWitness ==
  /\ startUrls = <<RootW>>
  /\ \E i, j \in DOMAIN tasks :
       /\ tasks[i].via = "seed" /\ tasks[i].url.host = HostW
       /\ tasks[j].via = "link" /\ tasks[j].url.host = HostA


\* C14: no yielded result has a URL that matches excludePattern, and with
\* includePattern set every yielded result's URL matches it, however the URL
\* entered the frontier.
YieldedMatchPatterns ==
  \A i \in DOMAIN yielded :
    /\ options.excludePattern # "" => ~patternTest(options.excludePattern, yielded[i].url)
    /\ options.includePattern # "" => patternTest(options.includePattern, yielded[i].url)


\* C15: at every moment of a crawl the number of fetch tasks in flight is
\* at most the configured concurrency.
InFlightWithinConcurrency == pending(tasks) <= options.concurrency

InFlightWithinConcurrencyWitness ==
  /\ pending(tasks) = options.concurrency
  /\ \E i \in DOMAIN tasks : tasks[i].st = "queued"


\* ------------------------------------------- the queue's rate limit alone
\* The PQueue of the crawler (interval 1000, intervalCap rateLimit) with
\* `waiting` processUrl functions in it.  The queue starts a function when
\* fewer than `concurrency` run and fewer than intervalCap were started in
\* the current interval; every running function is inside engine.fetch.
\* `requests` counts the requests the strategies sent in the current interval.
RateInit ==
  /\ norm = NormIdle /\ RobotsIdle
  /\ call = NoCall /\ stats = NoStats
  /\ playwrightInstalled = TRUE /\ browserInstallPromise = "null"
  /\ options = Options(2, 10, 150, TRUE, TRUE, "")
  /\ startUrls = <<>> /\ baseHosts = {} /\ visited = {} /\ tasks = <<>>
  /\ results = <<>> /\ yielded = <<>> /\ canonicalPaths = {}
  /\ gen = Gen("new", 0, 0) /\ smap = NoSmap /\ checked = NoCheck /\ dedup = NoDedup
  /\ closed = FALSE /\ auth = NoAuth /\ eng = NoEngine
  /\ inst = NoInstall
  /\ parseCall = NoParse
  /\ det = NoDet
  /\ fetches = <<>>
  /\ sm = NoSitemapRun
  /\ \E rateLimit \in {1, 2}, concurrency \in {1, 2}, waiting \in 1..MaxWaiting :
       rate = [NoRate EXCEPT !.rateLimit = rateLimit, !.concurrency = concurrency,
                             !.waiting = waiting]

\* The queue starts its next function: processUrl calls engine.fetch.
RateStart ==
  /\ rate.waiting > 0
  /\ Len(rate.running) < rate.concurrency
  /\ rate.intervalCount < rate.rateLimit
  /\ rate' = [rate EXCEPT !.waiting = @ - 1, !.intervalCount = @ + 1,
                          !.running = Append(@, fetchBegin(Root, ""))]
  /\ UNCHANGED <<norm, asked, call, checked, dedup, sm, closed, auth, eng, inst, parseCall, det, fetches, robotsVars, engineVars, options,
                 startUrls, baseHosts, visited, tasks, results, yielded, canonicalPaths,
                 gen, smap>>

\* One strategy of a running fetch sends its request and settles; the fetch
\* goes on to its next strategy or ends, and with it the function.
RateAttempt ==
  /\ \E i \in DOMAIN rate.running :
       \E a \in {fetchWithEngine(Head(rate.running[i].todo), TRUE, response) :
                   response \in Responses} :
         \E next \in {afterAttempt(rate.running[i], stats, a)} :
           /\ stats' = next.stats
           /\ rate' = [rate EXCEPT
                  !.requests = IF a.called THEN @ + 1 ELSE @,
                  !.running = IF next.call.pc = "trying"
                              THEN [@ EXCEPT ![i] = next.call]
                              ELSE SubSeq(@, 1, i - 1) \o SubSeq(@, i + 1, Len(@))]
  /\ UNCHANGED <<norm, asked, call, checked, dedup, sm, closed, auth, eng, inst, parseCall, det, fetches, robotsVars, playwrightInstalled,
                 browserInstallPromise, options, startUrls, baseHosts, visited, tasks,
                 results, yielded, canonicalPaths, gen, smap>>

\* The interval of the queue ends: its count of starts is reset.
RateInterval ==
  /\ rate.rateLimit > 0
  /\ rate.intervalCount > 0 \/ rate.requests > 0
  /\ rate' = [rate EXCEPT !.intervalCount = 0, !.requests = 0]
  /\ UNCHANGED <<norm, asked, call, checked, dedup, sm, closed, auth, eng, inst, parseCall, det, fetches, robotsVars, engineVars, options,
                 startUrls, baseHosts, visited, tasks, results, yielded, canonicalPaths,
                 gen, smap>>

RateNext == RateStart \/ RateAttempt \/ RateInterval

SpecRate == RateInit /\ [][RateNext]_vars

\* C16: within any one interval of the task queue the crawl sends at most
\* rateLimit page requests, each strategy attempt counting as one.
RequestsWithinRateLimit == rate.requests <= rate.rateLimit


\* A step in which task i ends without a result: its fetch threw, was
\* blocked or answered 400 and above, or its extraction threw or was short.
TaskDropped(i) ==
  /\ tasks[i].st \in {"fetching", "extracting"}
  /\ tasks'[i].st = "done"
  /\ results' = results

\* C17: an exception raised while fetching or extracting one URL is caught
\* inside that URL's task: no task's promise rejects, and the step that drops
\* the URL leaves the generator, the buffered and yielded results and every
\* other task as they were.
FailureStaysInTask ==
  /\ [](\A i \in DOMAIN tasks : tasks[i].st # "rejected")
  /\ [][\A i \in DOMAIN tasks :
          TaskDropped(i) =>
            /\ gen' = gen /\ yielded' = yielded
            /\ DOMAIN tasks' = DOMAIN tasks
            /\ \A j \in DOMAIN tasks : j # i => tasks'[j] = tasks[j]]_vars

FailureStaysInTaskWitness ==
  /\ stats.blocked >= 1
  /\ Len(tasks) = 2
  /\ \E i, j \in DOMAIN tasks :
       /\ i < j
       /\ tasks[i].st = "done"
       /\ \A r \in DOMAIN yielded : yielded[r].url # tasks[i].url
       /\ \A r \in DOMAIN results : results[r].url # tasks[i].url
       /\ \E r \in DOMAIN yielded : yielded[r].url = tasks[j].url


\* ------------------------------------------------ crawls that are closed
CloseInit ==
  /\ norm = NormIdle
  /\ asked = AskedIdle
  /\ call = NoCall
  /\ robotsTxt = CrawlWeb
  /\ rules = NoMap
  /\ sitemaps = NoMap
  /\ inflight = [h \in Hosts |-> 0]
  /\ stats = NoStats
  /\ playwrightInstalled = TRUE
  /\ browserInstallPromise = "null"
  /\ options \in {Options(MaxDepth, c, MaxPages, discover, discover, "") :
                    c \in {1, 2}, discover \in BOOLEAN}
  /\ startUrls \in {<<Root>>, <<Root, PageEn>>}
  /\ NewCrawler

\* The consumer stops consuming, at a yield of the generator or after its end,
\* and calls close(): queue.clear() drops the functions still waiting, and
\* engine.close() closes and forgets the engines.  Tasks that run stay as
\* they are.
Close ==
  /\ ~closed
  /\ gen.pc \in {"yield", "flushyield", "done"}
  /\ closed' = TRUE
  /\ gen' = [gen EXCEPT !.pc = "done"]
  /\ tasks' = SelectSeq(tasks, LAMBDA t : t.st # "queued")
  /\ UNCHANGED <<norm, asked, call, checked, dedup, sm, rate, auth, eng, inst, parseCall, det, fetches, robotsVars, engineVars, options,
                 startUrls, baseHosts, visited, results, yielded, canonicalPaths, smap>>

CloseNext == Next \/ Close

SpecClose == CloseInit /\ [][CloseNext]_vars

\* C18: once the consumer has left the crawl and close() has completed, no
\* fetch task is started and no browser strategy delivers a page any more,
\* tasks in flight at the time of close() included.
NothingStartsAfterClose ==
  [][closed =>
       /\ \A i \in DOMAIN tasks :
            i \in DOMAIN tasks' => ~(tasks[i].st = "queued" /\ tasks'[i].st = "fetching")
       /\ stats'.playwright = stats.playwright
       /\ stats'.rebrowser = stats.rebrowser]_vars


\* A step in which task i is dropped after engine.fetch settled as o: the
\* result was classified blocked, or every strategy that was tried failed.
DroppedAsBlocked(i, o) ==
  /\ tasks[i].st = "fetching"
  /\ tasks'[i].st = "done"
  /\ stats' = o.stats
  /\ browserInstallPromise' = o.promise
  /\ o.call.pc = "threw" \/ o.call.result.blocked

\* C19: every URL a fetch task drops because its response was classified
\* blocked, or because every strategy tried failed, adds exactly one to the
\* blocked counter of getStats(), with forceEngine set or unset.
DroppedCountedAsBlocked ==
  [][\A i \in DOMAIN tasks :
       i \in DOMAIN tasks' =>
         \A o \in FetchOutcomes(tasks[i].url) :
           DroppedAsBlocked(i, o) => stats'.blocked = stats.blocked + 1]_vars


\* ------------------------------------------- browser engines and sessions
\* A stored session is named by its domain; <<>> is no session.  A browser
\* context is open or not, and holds the session it was created with.
extractDomain(url) == IF parses(url) THEN url.host ELSE rawText(url)

\* processUrl, lines 205-217: the path of the stored session of the URL's
\* domain, undefined when auth is off or nothing is stored for the domain.
authStatePath(useAuth, stored, url) ==
  IF useAuth /\ extractDomain(url) \in stored THEN extractDomain(url) ELSE <<>>

\* The context a fetch of PlaywrightEngine or RebrowserEngine runs its page
\* in: the engine's context when its browser exists, else a new one, which
\* PlaywrightEngine creates with the session of the path it was given.
contextFor(engine, context, path) ==
  IF context.open THEN context
  ELSE [open |-> TRUE, session |-> IF engine = "playwright" THEN path ELSE <<>>]

AuthUrls == {Root, PageP, RootW, Elsewhere}

AuthInit ==
  /\ norm = NormIdle /\ RobotsIdle /\ EngineIdle
  /\ options = Options(2, 10, 150, TRUE, TRUE, "")
  /\ startUrls = <<>> /\ baseHosts = {} /\ visited = {} /\ tasks = <<>>
  /\ results = <<>> /\ yielded = <<>> /\ canonicalPaths = {}
  /\ gen = Gen("new", 0, 0) /\ smap = NoSmap /\ checked = NoCheck /\ dedup = NoDedup
  /\ closed = FALSE /\ sm = NoSitemapRun /\ rate = NoRate /\ eng = NoEngine
  /\ inst = NoInstall
  /\ parseCall = NoParse
  /\ det = NoDet
  /\ fetches = <<>>
  /\ \E useAuth \in BOOLEAN, stored \in SUBSET Hosts :
       auth = [NoAuth EXCEPT !.useAuth = useAuth, !.stored = stored]

\* processUrl fetches url through a browser strategy.
AuthFetch ==
  /\ \E url \in AuthUrls, engine \in BrowserEngines :
       \E context \in {contextFor(engine, auth[engine],
                                  authStatePath(auth.useAuth, auth.stored, url))} :
         auth' = [auth EXCEPT ![engine] = context,
                              !.last = [engine |-> engine, url |-> url, context |-> context]]
  /\ UNCHANGED <<norm, asked, call, checked, dedup, sm, rate, closed, eng, inst, parseCall, det, fetches, robotsVars, engineVars,
                 options, startUrls, baseHosts, visited, tasks, results, yielded,
                 canonicalPaths, gen, smap>>

\* close() of both engines: context and browser are closed and forgotten.
AuthClose ==
  /\ auth.playwright.open \/ auth.rebrowser.open
  /\ auth' = [auth EXCEPT !.playwright = NoContext, !.rebrowser = NoContext]
  /\ UNCHANGED <<norm, asked, call, checked, dedup, sm, rate, closed, eng, inst, parseCall, det, fetches, robotsVars, engineVars,
                 options, startUrls, baseHosts, visited, tasks, results, yielded,
                 canonicalPaths, gen, smap>>

AuthNext == AuthFetch \/ AuthClose

SpecAuth == AuthInit /\ [][AuthNext]_vars

\* C20: with auth enabled, whenever a session is stored for the domain of a
\* URL, a browser-strategy fetch of the URL runs in a context loaded with that
\* domain's session, whatever the same engine fetched before.
FetchUsesStoredSession ==
  (auth.last.engine # "" /\ auth.useAuth /\ extractDomain(auth.last.url) \in auth.stored)
    => auth.last.context.session = extractDomain(auth.last.url)


\* C21: the normalized form of a URL is in the visited set from the moment
\* its fetch task is given to the queue: no task waits or runs for a URL
\* whose normalized form is not visited.
VisitedBeforeTask ==
  \A i \in DOMAIN tasks : normalizeUrl(tasks[i].url) \in visited

VisitedBeforeTaskWitness ==
  \E i, j \in DOMAIN tasks :
    /\ tasks[i].st = "queued" /\ tasks[i].via = "sitemap"
    /\ tasks[j].st = "fetching" /\ tasks[j].via = "seed"
    /\ normalizeUrl(tasks[i].url) \in visited
    /\ normalizeUrl(tasks[j].url) \in visited


\* The strategies fetch may try for url when none is forced, cheapest first.
enginesToTry(url) == SubSeq(ENGINES, IF needsBrowser(url) THEN 2 ELSE 1, Len(ENGINES))

\* C22: with no strategy forced, the strategies are attempted in the order
\* fetch, playwright, rebrowser, from playwright on for a known-protected
\* host; each attempt follows only attempts that threw or were blocked, and
\* a non-blocked result ends the call.
WaterfallInOrder ==
  (call.pc # "idle" /\ call.force = "") =>
    /\ Len(call.attempts) <= Len(enginesToTry(call.url))
    /\ \A k \in DOMAIN call.attempts :
         /\ call.attempts[k].engine = enginesToTry(call.url)[k]
         /\ k < Len(call.attempts) => call.attempts[k].threw \/ call.attempts[k].blocked
    /\ \A k \in DOMAIN call.attempts :
         (~call.attempts[k].threw /\ ~call.attempts[k].blocked) =>
           k = Len(call.attempts) /\ call.pc = "returned"

WaterfallInOrderWitness ==
  /\ call.force = "" /\ call.pc = "returned"
  /\ needsBrowser(call.url)
  /\ Len(call.attempts) = 2
  /\ call.attempts[1].engine = "playwright" /\ call.attempts[1].blocked
  /\ call.attempts[2].engine = "rebrowser"


\* --------------------------------------- one browser engine, concurrently
\* PlaywrightEngine and RebrowserEngine share the shape of fetch and close.
\* Browsers and contexts are numbered in the order they come to exist;
\* eng.open and eng.openContexts hold the ones not closed yet, a context as
\* <<context, browser>>.  A fetch call stands at the await it is waiting in.
FetchCall(pc, mine, page) == [pc |-> pc, mine |-> mine, page |-> page]

contextOpen(e, c) == \E x \in e.openContexts : x[1] = c

\* fetch from `const page = await this.context?.newPage()` on: the page is
\* asked of the context the field holds now; without one fetch throws.
openPage(e, i) ==
  IF e.context = 0 THEN [e EXCEPT !.calls[i] = FetchCall("failed", 0, 0)]
  ELSE [e EXCEPT !.calls[i] = FetchCall("page", 0, e.context)]

\* fetch up to its first await, for a new call.
fetchStart(e) ==
  LET i == Len(e.calls) + 1
      started == [e EXCEPT !.calls = Append(@, FetchCall("new", 0, 0))]
  IN IF e.browser = 0
     THEN [started EXCEPT !.calls[i] = FetchCall("launch", 0, 0)]
     ELSE openPage(started, i)

\* chromium.launch resolved for call i: the browser is stored and a context
\* is asked of it.
afterLaunch(e, i) ==
  LET b == e.launched + 1
  IN [e EXCEPT !.launched = b, !.open = @ \cup {b}, !.browser = b,
               !.calls[i] = FetchCall("context", b, 0)]

\* browser.newContext settled for call i: the context is stored and the
\* route is asked of it; it rejects when the browser was closed meanwhile.
afterNewContext(e, i) ==
  LET c == e.created + 1
      b == e.calls[i].mine
  IN IF b \notin e.open THEN [e EXCEPT !.calls[i] = FetchCall("failed", 0, 0)]
     ELSE [e EXCEPT !.created = c, !.openContexts = @ \cup {<<c, b>>}, !.context = c,
                    !.calls[i] = FetchCall("route", c, 0)]

\* context.route settled for call i.
afterRoute(e, i) ==
  IF ~contextOpen(e, e.calls[i].mine) THEN [e EXCEPT !.calls[i] = FetchCall("failed", 0, 0)]
  ELSE openPage(e, i)

\* newPage, goto and content settled for call i and the page is closed.
afterPage(e, i) ==
  IF contextOpen(e, e.calls[i].page)
  THEN [e EXCEPT !.calls[i] = FetchCall("done", 0, e.calls[i].page)]
  ELSE [e EXCEPT !.calls[i] = FetchCall("failed", 0, 0)]

\* close returns; `left` keeps what is still open at that moment.
closeEnd(e) ==
  [e EXCEPT !.closing = "done",
            !.left = [browsers |-> e.open, contexts |-> {x[1] : x \in e.openContexts}]]

\* close from `if (this.browser)` on.
closeBrowser(e) ==
  IF e.browser = 0 THEN closeEnd(e)
  ELSE [e EXCEPT !.closing = "browser", !.open = @ \ {e.browser},
                 !.openContexts = {x \in @ : x[2] # e.browser}]

\* close up to its first await.
closeStart(e) ==
  IF e.context = 0 THEN closeBrowser(e)
  ELSE [e EXCEPT !.closing = "context", !.openContexts = {x \in @ : x[1] # e.context}]

BrowserInit ==
  /\ norm = NormIdle /\ RobotsIdle /\ EngineIdle
  /\ options = Options(2, 10, 150, TRUE, TRUE, "")
  /\ startUrls = <<>> /\ baseHosts = {} /\ visited = {} /\ tasks = <<>>
  /\ results = <<>> /\ yielded = <<>> /\ canonicalPaths = {}
  /\ gen = Gen("new", 0, 0) /\ smap = NoSmap /\ checked = NoCheck /\ dedup = NoDedup
  /\ closed = FALSE /\ sm = NoSitemapRun /\ rate = NoRate /\ auth = NoAuth
  /\ inst = NoInstall
  /\ parseCall = NoParse
  /\ det = NoDet
  /\ fetches = <<>>
  /\ \E name \in BrowserEngines : eng = [NoEngine EXCEPT !.name = name]

\* fetchWithEngine calls fetch on the engine.
BrowserFetch ==
  /\ eng.name # "" /\ eng.closing = "no"
  /\ Len(eng.calls) < MaxFetches
  /\ eng' = fetchStart(eng)
  /\ UNCHANGED <<norm, asked, call, checked, dedup, sm, rate, closed, auth, inst, parseCall, det, fetches, robotsVars,
                 engineVars, options, startUrls, baseHosts, visited, tasks, results, yielded,
                 canonicalPaths, gen, smap>>

\* The await of one fetch call settles and the call runs to its next await.
BrowserResume ==
  /\ \E i \in DOMAIN eng.calls :
       /\ eng.calls[i].pc \in {"launch", "context", "route", "page"}
       /\ eng' = CASE eng.calls[i].pc = "launch" -> afterLaunch(eng, i)
                   [] eng.calls[i].pc = "context" -> afterNewContext(eng, i)
                   [] eng.calls[i].pc = "route" -> afterRoute(eng, i)
                   [] eng.calls[i].pc = "page" -> afterPage(eng, i)
  /\ UNCHANGED <<norm, asked, call, checked, dedup, sm, rate, closed, auth, inst, parseCall, det, fetches, robotsVars,
                 engineVars, options, startUrls, baseHosts, visited, tasks, results, yielded,
                 canonicalPaths, gen, smap>>

\* EngineWaterfall.close calls close on the engine.
BrowserClose ==
  /\ eng.name # "" /\ eng.closing = "no"
  /\ eng' = closeStart(eng)
  /\ UNCHANGED <<norm, asked, call, checked, dedup, sm, rate, closed, auth, inst, parseCall, det, fetches, robotsVars,
                 engineVars, options, startUrls, baseHosts, visited, tasks, results, yielded,
                 canonicalPaths, gen, smap>>

\* An await of close settles and close runs on.
BrowserCloseResume ==
  /\ eng.closing \in {"context", "browser"}
  /\ eng' = IF eng.closing = "context" THEN closeBrowser([eng EXCEPT !.context = 0])
            ELSE closeEnd([eng EXCEPT !.browser = 0])
  /\ UNCHANGED <<norm, asked, call, checked, dedup, sm, rate, closed, auth, inst, parseCall, det, fetches, robotsVars,
                 engineVars, options, startUrls, baseHosts, visited, tasks, results, yielded,
                 canonicalPaths, gen, smap>>

BrowserNext == BrowserFetch \/ BrowserResume \/ BrowserClose \/ BrowserCloseResume

SpecBrowser == BrowserInit /\ [][BrowserNext]_vars

\* C23: under every interleaving of fetch calls on one browser engine, the
\* engine launches at most one browser and creates at most one context
\* between its construction and close(), and every page is in that context.
OneBrowserOneContext ==
  /\ eng.launched <= 1
  /\ eng.created <= 1
  /\ \A i \in DOMAIN eng.calls : eng.calls[i].page \in {0, 1}


\* C24: when close() has completed, every browser and every context the
\* engine launched since its construction is closed, also after fetches
\* that ran concurrently.
CloseClosesEverything ==
  eng.closing = "done" => eng.left.browsers = {} /\ eng.left.contexts = {}


\* ------------------------------------ ensureBrowserInstalled, concurrently
\* browserInstallPromise is "null", "pending" while installBrowser runs, and
\* "true" or "false" once it has resolved.  A caller waits in "check" for
\* isPlaywrightInstalled, in "wait" for the promise, and ends in the answer
\* it was given.
\* ensureBrowserInstalled after isPlaywrightInstalled answered, with the
\* test of the promise left out: every caller starts an install.
afterInstalledCheckNoMemo(installed, promise) ==
  IF installed THEN [answer |-> "true", promise |-> promise, starts |-> FALSE]
  ELSE [answer |-> "wait", promise |-> "pending", starts |-> TRUE]

\* ensureBrowserInstalled after isPlaywrightInstalled answered: the answer
\* or the wait for the promise, the promise field, and whether installBrowser
\* was called.
afterInstalledCheck(installed, promise) ==
  IF installed THEN [answer |-> "true", promise |-> promise, starts |-> FALSE]
  ELSE IF promise = "null" THEN [answer |-> "wait", promise |-> "pending", starts |-> TRUE]
  ELSE [answer |-> "wait", promise |-> promise, starts |-> FALSE]

InstallInit ==
  /\ norm = NormIdle /\ RobotsIdle
  /\ call = NoCall /\ stats = NoStats
  /\ playwrightInstalled \in BOOLEAN
  /\ browserInstallPromise = "null"
  /\ CrawlIdle

\* fetchWithEngine calls ensureBrowserInstalled for a browser strategy.
InstallCall ==
  /\ Len(inst.callers) < MaxCallers
  /\ inst' = [inst EXCEPT !.callers = Append(@, "check")]
  /\ UNCHANGED <<norm, asked, call, checked, dedup, sm, rate, closed, auth, eng, parseCall, det, fetches, robotsVars,
                 engineVars, options, startUrls, baseHosts, visited, tasks, results, yielded,
                 canonicalPaths, gen, smap>>

\* isPlaywrightInstalled answers one caller.
InstallChecked ==
  /\ \E i \in DOMAIN inst.callers :
       /\ inst.callers[i] = "check"
       /\ \E r \in {afterInstalledCheck(playwrightInstalled, browserInstallPromise)} :
            /\ inst' = [inst EXCEPT !.callers[i] = r.answer,
                                    !.runs = IF r.starts THEN @ + 1 ELSE @]
            /\ browserInstallPromise' = r.promise
  /\ UNCHANGED <<norm, asked, call, checked, dedup, sm, rate, closed, auth, eng, parseCall, det, fetches, robotsVars,
                 stats, playwrightInstalled, options, startUrls, baseHosts, visited, tasks,
                 results, yielded, canonicalPaths, gen, smap>>

\* installBrowser resolves: "npx playwright install chromium" worked or not.
InstallSettled ==
  /\ browserInstallPromise = "pending"
  /\ \E installs \in BOOLEAN :
       browserInstallPromise' = IF installs THEN "true" ELSE "false"
  /\ UNCHANGED <<norm, asked, checked, dedup, sm, rate, closed, auth, eng, inst, parseCall, det, fetches, robotsVars,
                 call, stats, playwrightInstalled, options, startUrls, baseHosts, visited,
                 tasks, results, yielded, canonicalPaths, gen, smap>>

\* A caller that waits for the promise is given its value.
InstallReturn ==
  /\ browserInstallPromise \in {"true", "false"}
  /\ \E i \in DOMAIN inst.callers :
       /\ inst.callers[i] = "wait"
       /\ inst' = [inst EXCEPT !.callers[i] = browserInstallPromise]
  /\ UNCHANGED <<norm, asked, call, checked, dedup, sm, rate, closed, auth, eng, parseCall, det, fetches, robotsVars,
                 engineVars, options, startUrls, baseHosts, visited, tasks, results, yielded,
                 canonicalPaths, gen, smap>>

InstallNext == InstallCall \/ InstallChecked \/ InstallSettled \/ InstallReturn

SpecInstall == InstallInit /\ [][InstallNext]_vars

\* C25: under every interleaving of callers, installBrowser runs at most
\* once per waterfall; every caller that found the runtime missing is given
\* the outcome of that one run, and a failed install is not run again.
InstallsOnce ==
  /\ inst.runs <= 1
  /\ ~playwrightInstalled =>
       \A i \in DOMAIN inst.callers :
         inst.callers[i] \in {"true", "false"} => inst.callers[i] = browserInstallPromise

InstallsOnceWitness ==
  /\ ~playwrightInstalled
  /\ browserInstallPromise = "false"
  /\ inst.runs = 1
  /\ Len(inst.callers) = MaxCallers
  /\ \A i \in DOMAIN inst.callers : inst.callers[i] = "false"


\* The URL recorded for the key of url in map; only used when there is one.
existingFor(map, url) == The({x.url : x \in entriesFor(map, url)})

\* A call of shouldSkip with a localized URL whose key has a representative.
LocalizedCallOnKnownKey ==
  /\ dedup.called
  /\ entriesFor(dedup.before, dedup.url) # {}
  /\ extractLocale(dedup.url).hasLocale

\* C26 as stated: with a representative recorded for the key, a localized
\* URL is accepted exactly when its language is the preferred one and the
\* representative's language is not; otherwise it is skipped with reason
\* locale:<incoming locale>.
AcceptsIffPreferredOverOther ==
  LocalizedCallOnKnownKey =>
    LET info == extractLocale(dedup.url)
        existing == extractLocale(existingFor(dedup.before, dedup.url))
    IN /\ ~dedup.skip <=>
            (info.language = PreferredLanguage /\ existing.language # PreferredLanguage)
       /\ dedup.skip => dedup.reason = <<"locale:">> \o info.locale

\* C26 amended: with a representative recorded for the key, a localized URL
\* is accepted exactly when its language is the preferred one and the
\* representative is itself localized in another language; a representative
\* without a locale counts as preferred.  Otherwise the URL is skipped with
\* reason locale:<incoming locale>.
AcceptsIffPreferredOverOtherLocale ==
  LocalizedCallOnKnownKey =>
    LET info == extractLocale(dedup.url)
        existing == extractLocale(existingFor(dedup.before, dedup.url))
    IN /\ ~dedup.skip <=>
            /\ info.language = PreferredLanguage
            /\ existing.hasLocale
            /\ existing.language # PreferredLanguage
       /\ dedup.skip => dedup.reason = <<"locale:">> \o info.locale

AcceptsIffPreferredOverOtherLocaleWitness ==
  /\ LocalizedCallOnKnownKey
  /\ extractLocale(dedup.url).language = PreferredLanguage
  /\ ~extractLocale(existingFor(dedup.before, dedup.url)).hasLocale
  /\ dedup.skip
  /\ dedup.reason = <<"locale:">> \o extractLocale(dedup.url).locale


\* C27: for every canonical key, a call of shouldSkip replaces the recorded
\* representative only when the incoming URL's language is the preferred one
\* and the current representative's is not; a representative in the
\* preferred language is never replaced.
RepresentativeMonotone ==
  [][\A x \in canonicalPaths : \A y \in canonicalPaths' :
       (x.key = y.key /\ x.url # y.url) =>
         /\ y.url = dedup'.url
         /\ extractLocale(y.url).language = PreferredLanguage
         /\ extractLocale(x.url).language # PreferredLanguage]_vars


\* C28: once a rule list is stored for a host, no later or concurrent parse
\* for that host changes it, however the overlapping robots.txt requests of
\* seeds sharing the host are answered.
RobotsRecordImmutable ==
  [][\A h \in Hosts : rules[h].has => rules'[h] = rules[h]]_vars


RobotsUrls == {Abs(HostA, p) : p \in RobotsPaths}

\* C29: when the robots.txt request of a host is answered non-OK, fails or
\* times out, parse resolves, the empty rule list is the host's record, and
\* isAllowed allows every URL of the host for every user-agent.
RobotsFailOpen ==
  (parseCall.done /\ (parseCall.failed \/ ~parseCall.ok)) =>
    /\ parseCall.settled = "resolved"
    /\ rules[parseCall.host] = [has |-> TRUE, list |-> <<>>]
    /\ \A url \in RobotsUrls, ua \in {"*", "Bot"} : isAllowed(rules, url, ua)
    /\ (asked.done /\ asked.url.host = parseCall.host) => asked.allowed

\* C29 witness: the request of a host whose robots.txt disallows everything
\* failed, and a URL of the host was asked for and allowed.
RobotsFailOpenWitness ==
  /\ parseCall.done /\ parseCall.failed /\ parseCall.settled = "resolved"
  /\ \E i \in DOMAIN robotsTxt[HostA].text :
       robotsTxt[HostA].text[i] = Line("disallow", <<"/">>)
  /\ Head(robotsTxt[HostA].text) = Line("user-agent", "*")
  /\ asked.done /\ asked.url.host = HostA /\ asked.allowed


\* crawl() is past both discovery waits: in the drain loop or beyond it.
PastDiscovery == gen.pc \notin {"new", "robots", "sitemap", "threw"}

\* Every task queued for a seed has been started by the queue.
SeedTasksRan == \A i \in DOMAIN tasks : tasks[i].via = "seed" => tasks[i].st # "queued"

EndsOnlyWhenDue ==
  [][(gen.pc # "done" /\ gen'.pc = "done") =>
       /\ results' = <<>>
       /\ \/ ~busy(tasks')
          \/ gen'.yieldedCount >= options.maxPages
          \/ gen'.idle > IdleTicks]_vars

\* C31 witness: the generator ended on the idle timeout, below the page
\* budget and with a task still running.
EndsOnlyWhenDueWitness ==
  /\ gen.pc = "done" /\ results = <<>>
  /\ gen.idle > IdleTicks
  /\ gen.yieldedCount < options.maxPages
  /\ Len(yielded) = 1
  /\ busy(tasks)


\* C32 as stated: when the crawl has ended, every entry addToQueue admitted
\* has been processed by exactly one invocation of processUrl.
EveryEntryProcessedOnce ==
  gen.pc = "done" => \A i \in DOMAIN tasks : tasks[i].runs = 1

\* C32 amended: no entry is ever processed by more than one invocation of
\* processUrl, and at the step that ends the generator because the queue has
\* drained (neither the page budget nor the idle timeout is due), every entry
\* admitted so far has been processed by exactly one, to its end.
EveryEntryProcessedOnceWhenDrained ==
  /\ [](\A i \in DOMAIN tasks : tasks[i].runs <= 1 /\ (tasks[i].runs = 1 <=> tasks[i].st # "queued"))
  /\ [][(gen.pc # "done" /\ gen'.pc = "done"
          /\ gen'.yieldedCount < options.maxPages /\ gen'.idle <= IdleTicks) =>
         \A i \in DOMAIN tasks' : tasks'[i].runs = 1 /\ tasks'[i].st = "done"]_vars

\* C32 witness: the generator ended on the drained queue, below the page
\* budget and before the idle timeout, after two tasks had run to their end.
EveryEntryProcessedOnceWhenDrainedWitness ==
  /\ gen.pc = "done"
  /\ gen.yieldedCount < options.maxPages /\ gen.idle <= IdleTicks
  /\ Len(tasks) = 2
  /\ \A i \in DOMAIN tasks : tasks[i].runs = 1 /\ tasks[i].st = "done"


\* C33: every yielded and every buffered result was made from an engine
\* result that is not blocked and has a status below 400, and from an
\* extraction of at least MIN_WORDS words; no task has more than one result.
ResultsAreSubstantive ==
  LET all == yielded \o results
  IN /\ \A r \in DOMAIN all :
          /\ ~all[r].fetched.blocked
          /\ all[r].fetched.statusCode < 400
          /\ all[r].wordCount >= MIN_WORDS
     /\ \A i \in DOMAIN tasks :
          Cardinality({r \in DOMAIN all : all[r].url = tasks[i].url}) <= 1

\* C33 witness: one task was dropped after its fetch, another gave the one
\* result yielded so far.
ResultsAreSubstantiveWitness ==
  /\ Len(yielded) = 1 /\ results = <<>>
  /\ yielded[1].wordCount = MIN_WORDS /\ yielded[1].fetched.statusCode = 200
  /\ \E i, j \in DOMAIN tasks :
       /\ tasks[i].url = yielded[1].url /\ tasks[i].st = "done"
       /\ tasks[j].url # yielded[1].url /\ tasks[j].st = "done"


isPrefix(a, b) == Len(a) <= Len(b) /\ SubSeq(b, 1, Len(a)) = a

\* C34: results are yielded in the order the tasks buffered them: every step
\* extends the yielded results at their end, and extends the yielded results
\* followed by the buffered ones at their end.
YieldedInBufferOrder ==
  [][/\ isPrefix(yielded, yielded')
     /\ isPrefix(yielded \o results, yielded' \o results')]_vars

\* C34 witness: the generator is suspended at the yield of the first result
\* while a second task's result waits in the buffer.
YieldedInBufferOrderWitness ==
  /\ gen.pc = "yield"
  /\ Len(yielded) = 1 /\ Len(results) = 1
  /\ yielded[1].url # results[1].url


\* -------------------------------------------------- isBlocked, exercised
\* Bodies by what isBlocked reads of them: short, medium and longer than
\* every ceiling, with up to two markers of each provider.
DetectorBodies ==
  {Html(len, cf, dd, px, ak, 0, bot, FALSE, FALSE) :
     len \in {300, 8000, 60000}, cf \in 0..2, dd \in 0..2, px \in 0..2, ak \in 0..2,
     bot \in BOOLEAN}

DetectorInit ==
  /\ norm = NormIdle
  /\ RobotsIdle
  /\ EngineIdle
  /\ CrawlIdle

Detect ==
  /\ ~det.done
  /\ \E html \in DetectorBodies, statusCode \in {200, 404, 503} :
       det' = [done |-> TRUE, html |-> html, statusCode |-> statusCode,
               verdict |-> isBlocked(html, statusCode)]
  /\ UNCHANGED <<norm, asked, call, checked, dedup, sm, rate, closed, auth, eng, inst,
                 parseCall, fetches, robotsVars, engineVars, options, startUrls, baseHosts, visited,
                 tasks, results, yielded, canonicalPaths, gen, smap>>

DetectorNext == Detect

SpecDetector == DetectorInit /\ [][DetectorNext]_vars

\* The body is below the ceiling of the provider checks.
belowCeiling(html) == html.len < 50000

\* C35: a response whose status is not 403, 429 or 503 is classified as a
\* block by Cloudflare, DataDome, PerimeterX or Akamai only if the body has at
\* least two markers of that provider and is shorter than 50,000 characters
\* (access_denied is also the reason of the generic check of short bodies).
ProviderBlockNeedsTwoMarkers ==
  (det.done /\ det.statusCode \notin {403, 429, 503} /\ det.verdict.blocked) =>
    /\ det.verdict.reason = "cloudflare" => (det.html.cf >= 2 /\ belowCeiling(det.html))
    /\ det.verdict.reason = "datadome" => (det.html.dd >= 2 /\ belowCeiling(det.html))
    /\ det.verdict.reason = "access_denied" =>
         \/ (det.html.px >= 2 /\ belowCeiling(det.html))
         \/ (det.html.ak >= 2 /\ belowCeiling(det.html))
         \/ (det.html.bot /\ det.html.len < 3000)


\* The two-letter path segment at position k of the URL's path is on the
\* exclusion list.
excludedSegmentAt(url, k) ==
  \E m \in {localeAt(pathname(url), k, k = 1)} : m.ok /\ m.first \in FalsePositives

NoBufferedResultLost ==
  gen.pc = "done" => results = <<>>


\* ------------------------------------------- admission after a localized seed
\* A crawl of one seed, /en/x or /x of a.com, whose admission pipeline is then
\* asked about the URLs a page may link to.
SeedLocaleInit ==
  /\ norm = NormIdle
  /\ asked = AskedIdle
  /\ call = NoCall
  /\ robotsTxt = CrawlWeb
  /\ rules = NoMap
  /\ sitemaps = NoMap
  /\ inflight = [h \in Hosts |-> 0]
  /\ stats = NoStats
  /\ playwrightInstalled = TRUE
  /\ browserInstallPromise = "null"
  /\ options \in {Options(d, 1, m, rr, FALSE, "") :
                    d \in 0..MaxDepth, m \in 1..MaxPages, rr \in BOOLEAN}
  /\ startUrls \in {<<PageEn>>, <<PageX>>}
  /\ NewCrawler

SpecSeedLocale == SeedLocaleInit /\ [][AdmissionNext]_vars

\* The URL is the variant in another locale of a seed in the preferred
\* language: same host, same canonical path.
variantOfPreferredSeed(url) ==
  \E i \in DOMAIN startUrls :
    \E s \in {extractLocale(startUrls[i])}, u \in {extractLocale(url)} :
      /\ s.hasLocale /\ s.language = PreferredLanguage
      /\ u.hasLocale /\ u.language # PreferredLanguage
      /\ keyOf(url) = keyOf(startUrls[i])

\* C38: once the seeds are queued, shouldCrawl rejects a link that is the
\* variant in another locale of a seed in the preferred language.
SeedLocaleSuppressed ==
  (checked.calls >= 1 /\ variantOfPreferredSeed(checked.url)) => ~checked.first


\* ------------------------------------------- the counters of the waterfall
\* One EngineWaterfall on which up to MaxCalls calls of fetch are made, some
\* with a forced strategy, some for a host known to need a browser; a call
\* is suspended at each fetchWithEngine and the calls interleave there.
StatsUrls == {Abs(HostA, <<"/">>), Abs(HostX, <<"/">>)}
StatsResponses ==
  {Response(FALSE, 200, Article), Response(FALSE, 429, Article), Response(TRUE, 0, Article)}

StatsInit ==
  /\ norm = NormIdle
  /\ RobotsIdle
  /\ call = NoCall
  /\ stats = NoStats
  /\ playwrightInstalled \in BOOLEAN
  /\ browserInstallPromise = "null"
  /\ CrawlIdle

StatsFetch ==
  /\ Len(fetches) < MaxCalls
  /\ \E url \in StatsUrls, forceEngine \in {"", "playwright"} :
       fetches' = Append(fetches, fetchBegin(url, forceEngine))
  /\ UNCHANGED <<norm, asked, call, checked, dedup, sm, rate, closed, auth, eng, inst,
                 parseCall, det, robotsVars, stats, playwrightInstalled,
                 browserInstallPromise, options, startUrls, baseHosts, visited, tasks,
                 results, yielded, canonicalPaths, gen, smap>>

\* One iteration of the loop of one of the calls.
StatsAttempt ==
  /\ \E i \in DOMAIN fetches, response \in StatsResponses, installs \in BOOLEAN :
       /\ fetches[i].pc = "trying"
       /\ \E ensured \in {ensureBrowserInstalled(playwrightInstalled, browserInstallPromise,
                                                 installs)} :
            \E next \in {afterAttempt(fetches[i], stats,
                                      fetchWithEngine(Head(fetches[i].todo), ensured.ok,
                                                      response))} :
              /\ fetches' = [fetches EXCEPT ![i] = next.call]
              /\ stats' = next.stats
              /\ browserInstallPromise' =
                   IF Head(fetches[i].todo) \in BrowserEngines THEN ensured.promise
                   ELSE browserInstallPromise
  /\ UNCHANGED <<norm, asked, call, checked, dedup, sm, rate, closed, auth, eng, inst,
                 parseCall, det, robotsVars, playwrightInstalled, options, startUrls,
                 baseHosts, visited, tasks, results, yielded, canonicalPaths, gen, smap>>

StatsNext == StatsFetch \/ StatsAttempt

SpecStats == StatsInit /\ [][StatsNext]_vars

\* The unforced calls that have ended in the given way.
unforcedEnded(pc) == {i \in DOMAIN fetches : fetches[i].force = "" /\ fetches[i].pc = pc}

\* C39: with no strategy forced, every completed call of fetch has counted
\* once: each strategy's counter is the number of completed calls that
\* returned that strategy's result, "blocked" is the number of calls that
\* threw, each after every strategy it had to try threw or was blocked; so the
\* four counters add up to the number of completed calls, and no counter ever
\* decreases.
StatsCountCompletedCalls ==
  /\ [](/\ \A name \in {"fetch", "playwright", "rebrowser"} :
             stats[name] = Cardinality({i \in unforcedEnded("returned") :
                                          fetches[i].result.engine = name})
        /\ stats.blocked = Cardinality(unforcedEnded("threw"))
        /\ \A i \in unforcedEnded("threw") :
             /\ Len(fetches[i].attempts) = IF needsBrowser(fetches[i].url) THEN 2 ELSE 3
             /\ \A j \in DOMAIN fetches[i].attempts :
                  fetches[i].attempts[j].threw \/ fetches[i].attempts[j].blocked
        /\ stats.fetch + stats.playwright + stats.rebrowser + stats.blocked
             = Cardinality(unforcedEnded("returned") \cup unforcedEnded("threw")))
  /\ [][\A name \in DOMAIN stats : stats'[name] >= stats[name]]_vars

\* C39 witness: of two unforced calls in flight together, the one made last
\* returned a browser strategy's result and the other threw.
StatsCountCompletedCallsWitness ==
  /\ Len(fetches) = 2
  /\ fetches[1].force = "" /\ fetches[1].pc = "threw" /\ Len(fetches[1].attempts) = 3
  /\ fetches[2].force = "" /\ fetches[2].pc = "returned"
  /\ fetches[2].result.engine = "playwright"
  /\ stats = [fetch |-> 0, playwright |-> 1, rebrowser |-> 0, blocked |-> 1]


\* A step in which shouldCrawl was called and returned false.
ShouldCrawlRefused ==
  /\ checked'.calls \in {1, 2} /\ checked'.calls # checked.calls
  /\ ~(IF checked'.calls = 1 THEN checked'.first ELSE checked'.second)

\* C40: a call of shouldCrawl that returns false, a malformed URL's included,
\* leaves the canonical-path map as it was, and the loop over a page's links,
\* which queues only what shouldCrawl accepts, leaves the visited set and the
\* queue as they were.
RefusedLeavesFrontier ==
  [][ShouldCrawlRefused =>
       /\ canonicalPaths' = canonicalPaths /\ visited' = visited /\ tasks' = tasks
       /\ admitAll(Frontier(visited, tasks, canonicalPaths), options, rules, baseHosts,
                   <<checked'.url>>, checked'.depth, "link")
            = Frontier(visited, tasks, canonicalPaths)]_vars

\* C40 witness: /de/x was refused as a locale variant of a tracked URL, and
\* the map still holds that URL for the key.
RefusedLeavesFrontierWitness ==
  /\ checked.calls = 1 /\ ~checked.first /\ checked.url = PageDe
  /\ checked.depth <= options.depth
  /\ Cardinality(visited) < options.maxPages
  /\ \E e \in canonicalPaths : e.key = keyOf(PageDe) /\ e.url # PageDe

====
